---------------------------- MODULE Spec2Model ----------------------------
(***************************************************************************)
(* A model of the mailing-list validator's normalisation, dedup-key and    *)
(* merge engine (src/src/schema.py, src/src/parser.py,                     *)
(* src/src/processor.py), of its entry point (src/src/main.py) and of its  *)
(* address validators (src/src/validate_dns.py, src/src/validate_smtp.py). *)
(*                                                                         *)
(* A Python str is modelled as a sequence of one-character strings, so     *)
(* that strip(), lower(), split(','), sorted() and ', '.join() are         *)
(* computed character by character as Python computes them.                *)
(***************************************************************************)
EXTENDS Integers, Sequences, FiniteSets, TLC

VARIABLES
    existing,         \* _merge_records: the store entry passed as `existing`
    new,              \* _merge_records: the incoming record passed as `new`
    merged,           \* _merge_records: the returned record (the new store entry)
    phase,            \* "inserted" before the first merge into the entry, then "merged"
    repeated,         \* TRUE when the last merge used the same incoming record as the one before
    contacts_db,      \* ContactProcessor.contacts_db: dedup key -> record
    email_to_key,     \* ContactProcessor.email_to_key: lower-cased e-mail -> dedup key
    processed_files,  \* ContactProcessor.processed_files
    uuids,            \* the number of uuid4() tokens drawn so far
    batch,            \* the records passed to the last process_records call
    keys,             \* the dedup key generated for each record of that call
    prev_db,          \* contacts_db as it was when that call began
    df,               \* parse_file: the DataFrame read_file returned (columns and rows)
    field_mapping,    \* parse_file: the mapping map_fields returned for it
    parsed_records,   \* parse_file: the records returned
    emitted,          \* the row idx each of these records was built from
    skipped_invalid_email,  \* parse_file: rows dropped by the e-mail test
    skipped_garbage,  \* parse_file: rows dropped by the garbage re-check
    name_input,       \* extract_name_parts: the argument `fullname`
    name_parts,       \* extract_name_parts: the returned pair, NotCalled before the call
    objects,          \* the dict objects alive, by identity: objects[id] holds the fields of id
    db_ref,           \* contacts_db by identity: dedup key -> id of the dict stored under it
    call,             \* the last process_records call: its records, keys and merges by identity
    ingest,           \* the names of the files in the ingest directory
    main_at,          \* main(): the statement of MainProgram the main thread is at
    main_pc,          \* process_existing_files: "call" before line 95, "loop" in the loop of line 108
    files_to_process, \* process_existing_files: the sorted files the loop has not reached yet
    observer_pc,      \* the observer thread: "off", "idle", or its place in IngestHandler.process_file
    event_queue,      \* the created/modified events the observer has not dispatched yet
    processing,       \* IngestHandler.processing
    work,             \* per thread, the process_records call it is in: file, records left, entry read
    parses,           \* per file name, the number of parse_file calls made on it
    folds,            \* per file name, the number of process_records calls made for it
    handled,          \* per file name, the number of events dispatched to the handler
    seen,             \* the lower-cased EMAILs of the records written to the store
    events,           \* the number of file system events so far
    fs,               \* validators: the files by path, Absent or their content
    val_args,         \* process_contacts_file: which validator, and its arguments
    val_pc,           \* process_contacts_file: the statement it is at
    original,         \* the content of the input file when process_contacts_file was called
    fieldnames,       \* process_contacts_file: reader.fieldnames
    contacts,         \* process_contacts_file: list(reader)
    verdicts,         \* for each contact the loop has passed: whether it was validated, and is_valid
    valid_contacts,   \* process_contacts_file: valid_contacts
    io_log            \* the writes to files made so far, in order

mergeVars == <<existing, new, merged, phase, repeated>>
storeVars == <<contacts_db, email_to_key, processed_files, uuids, batch, keys, prev_db>>
parseVars == <<df, field_mapping, parsed_records, emitted, skipped_invalid_email, skipped_garbage>>
nameVars == <<name_input, name_parts>>
refVars == <<objects, db_ref, call>>
mainVars == <<ingest, main_at, main_pc, files_to_process, observer_pc, event_queue,
              processing, work, parses, folds, handled, seen, events>>
valVars == <<fs, val_args, val_pc, original, fieldnames, contacts, verdicts, valid_contacts, io_log>>
vars == <<mergeVars, storeVars, parseVars, nameVars, refVars, mainVars, valVars>>

-----------------------------------------------------------------------------
(* schema.py *)

OUTPUT_FIELDS ==
    << "EMAIL", "FIRSTNAME", "LASTNAME", "FULLNAME", "COMPANYNAME", "SMS",
       "LANDLINE_NUMBER", "WHATSAPP", "INTERESTS", "LINKEDIN", "FACEBOOK",
       "WEBSITE", "ADDRESS1", "ADDRESS2", "CITY", "COUNTRY", "POSTCODE" >>

FieldNames == { OUTPUT_FIELDS[k] : k \in 1..Len(OUTPUT_FIELDS) }

\* get_output_template(): every output field initialised to the empty string
get_output_template == [ f \in FieldNames |-> << >> ]

-----------------------------------------------------------------------------
(* Python str primitives *)

\* the characters the model's strings are built from
CodeChars ==
    << "\t", " ", "!", "#", "%", "&", "+", ",", "-", ".", "/", "0", "1", "2",
       "3", "4", "5", "6", "7", "8", "9", ":", "?", "@", "A", "B", "C", "D",
       "E", "F", "G", "H", "I", "J", "K", "L", "M", "N", "O", "P", "Q", "R",
       "S", "T", "U", "V", "W", "X", "Y", "Z", "_", "a", "b", "c", "d", "e",
       "f", "g", "h", "i", "j", "k", "l", "m", "n", "o", "p", "q", "r", "s",
       "t", "u", "v", "w", "x", "y", "z" >>

\* ord(c) of each of them, in the same order
CodeValues ==
    << 9, 32, 33, 35, 37, 38, 43, 44, 45, 46, 47, 48, 49, 50, 51, 52, 53, 54,
       55, 56, 57, 58, 63, 64, 65, 66, 67, 68, 69, 70, 71, 72, 73, 74, 75,
       76, 77, 78, 79, 80, 81, 82, 83, 84, 85, 86, 87, 88, 89, 90, 95, 97,
       98, 99, 100, 101, 102, 103, 104, 105, 106, 107, 108, 109, 110, 111,
       112, 113, 114, 115, 116, 117, 118, 119, 120, 121, 122 >>

\* ord(c)
CodePoint ==
    [ c \in { CodeChars[i] : i \in DOMAIN CodeChars } |->
        CodeValues[CHOOSE i \in DOMAIN CodeChars : CodeChars[i] = c] ]

UpperChars == { c \in DOMAIN CodePoint : CodePoint[c] >= 65 /\ CodePoint[c] <= 90 }
LowerChars == { c \in DOMAIN CodePoint : CodePoint[c] >= 97 /\ CodePoint[c] <= 122 }
DigitChars == { c \in DOMAIN CodePoint : CodePoint[c] >= 48 /\ CodePoint[c] <= 57 }

\* str.isspace() of one character
IsSpace(c) == c \in {" ", "\t"}

\* c.lower() of one character
LowerChar(c) ==
    IF c \in UpperChars
    THEN CHOOSE d \in LowerChars : CodePoint[d] = CodePoint[c] + 32
    ELSE c

\* s.lower()
Lower(s) == [ k \in 1..Len(s) |-> LowerChar(s[k]) ]

\* s.strip(): leading and trailing whitespace removed
Strip(s) ==
    IF Len(s) = 0 \/ (~IsSpace(s[1]) /\ ~IsSpace(s[Len(s)])) THEN s
    ELSE LET keep == { k \in 1..Len(s) : ~IsSpace(s[k]) }
         IN  IF keep = {} THEN << >>
             ELSE LET lo == CHOOSE k \in keep : \A j \in keep : k <= j
                      hi == CHOOSE k \in keep : \A j \in keep : k >= j
                  IN  SubSeq(s, lo, hi)

\* s.split(','): the pieces between commas, empty pieces kept
RECURSIVE SplitComma(_)
SplitComma(s) ==
    LET commas == { k \in 1..Len(s) : s[k] = "," }
    IN  IF commas = {} THEN << s >>
        ELSE LET k == CHOOSE k \in commas : \A j \in commas : k <= j
             IN  << SubSeq(s, 1, k - 1) >> \o SplitComma(SubSeq(s, k + 1, Len(s)))

\* a < b for Python str: code-point lexicographic order
StrLess(a, b) ==
    \E k \in 1..(Len(b)) :
        /\ k <= Len(a) + 1
        /\ \A j \in 1..(k - 1) : a[j] = b[j]
        /\ \/ k = Len(a) + 1
           \/ k <= Len(a) /\ CodePoint[a[k]] < CodePoint[b[k]]

\* sorted(S) of a set of strings
RECURSIVE Sorted(_)
Sorted(S) ==
    IF S = {} THEN << >>
    ELSE LET m == CHOOSE m \in S : \A x \in S \ {m} : StrLess(m, x)
         IN  << m >> \o Sorted(S \ {m})

\* sep.join(parts)
RECURSIVE Join(_, _)
Join(parts, sep) ==
    IF Len(parts) = 0 THEN << >>
    ELSE IF Len(parts) = 1 THEN parts[1]
    ELSE parts[1] \o sep \o Join(Tail(parts), sep)

\* record.get(field, '')
Get(record, field) == IF field \in DOMAIN record THEN record[field] ELSE << >>

\* record[field] = value
Put(record, field, value) == (field :> value) @@ record

-----------------------------------------------------------------------------
(* processor.py: ContactProcessor._merge_records *)

\* lines 120-123: the interests of both values, unioned, sorted, joined
InterestTokens(val) ==
    LET parts == SplitComma(val)
    IN  { Strip(parts[k]) : k \in { j \in 1..Len(parts) : Strip(parts[j]) # << >> } }

\* interests joined in the order met, existing first, without sorting
RECURSIVE Dedup(_)
Dedup(parts) ==
    IF Len(parts) = 0 THEN << >>
    ELSE LET rest == Dedup(SubSeq(parts, 1, Len(parts) - 1))
             last == parts[Len(parts)]
         IN  IF \E k \in 1..Len(rest) : rest[k] = last THEN rest ELSE Append(rest, last)

CombineInterestsUnsorted(existing_value, new_value) ==
    LET strip(parts) == [ k \in 1..Len(parts) |-> Strip(parts[k]) ]
        all == strip(SplitComma(existing_value)) \o strip(SplitComma(new_value))
    IN  Join(Dedup(SelectSeq(all, LAMBDA t : t # << >>)), << ",", " " >>)

CombineInterests(existing_value, new_value) ==
    Join(Sorted(InterestTokens(existing_value) \cup InterestTokens(new_value)),
         << ",", " " >>)

\* a merge that also replaces the existing value on a length tie (>= for >)
MergeFieldOnTie(m, old, incoming, field) ==
    LET existing_value == Strip(Get(old, field))
        new_value == Strip(Get(incoming, field))
    IN  IF new_value = << >> THEN m
        ELSE IF existing_value = << >> THEN Put(m, field, new_value)
        ELSE IF field = "INTERESTS"
        THEN Put(m, field, CombineInterests(existing_value, new_value))
        ELSE IF Len(new_value) >= Len(existing_value)
        THEN Put(m, field, new_value)
        ELSE m

\* a merge in which a non-empty incoming value always replaces the existing one
MergeFieldOverwrite(m, old, incoming, field) ==
    LET existing_value == Strip(Get(old, field))
        new_value == Strip(Get(incoming, field))
    IN  IF new_value = << >> THEN m
        ELSE IF existing_value # << >> /\ field = "INTERESTS"
        THEN Put(m, field, CombineInterests(existing_value, new_value))
        ELSE Put(m, field, new_value)

\* lines 110-125: one iteration of the loop over OUTPUT_FIELDS
MergeField(m, old, incoming, field) ==
    LET existing_value == Strip(Get(old, field))
        new_value == Strip(Get(incoming, field))
    IN  IF existing_value = << >> /\ new_value # << >>
        THEN Put(m, field, new_value)
        ELSE IF existing_value # << >> /\ new_value # << >>
        THEN IF field = "INTERESTS"
             THEN Put(m, field, CombineInterests(existing_value, new_value))
             ELSE IF Len(new_value) > Len(existing_value)
             THEN Put(m, field, new_value)
             ELSE m
        ELSE m

RECURSIVE MergeLoop(_, _, _, _)
MergeLoop(m, old, incoming, k) ==
    IF k > Len(OUTPUT_FIELDS) THEN m
    ELSE MergeLoop(MergeField(m, old, incoming, OUTPUT_FIELDS[k]), old, incoming, k + 1)

\* a merge that starts from the incoming record instead of a copy of the existing one
MergeRecordsFromNew(old, incoming) == MergeLoop(incoming, old, incoming, 1)

\* lines 107-127: merged = existing.copy(); the loop; return merged
MergeRecords(old, incoming) == MergeLoop(old, old, incoming, 1)

-----------------------------------------------------------------------------
(* processor.py: ContactProcessor._generate_dedup_key *)

HintLen == 50

EMAILPREFIX == <<"e", "m", "a", "i", "l", ":">>
NAMEPREFIX == <<"n", "a", "m", "e", ":">>
UNIQUEPREFIX == <<"u", "n", "i", "q", "u", "e", ":">>

\* str(uuid.uuid4()) of the n-th draw.  uuid4 tokens are 122 random bits;
\* the model takes two draws to differ, as the code's comment does
\* ("won't match anything").
Uuid4(n) == << "u", "u", "i", "d", "-" >> \o << (<< "0", "1", "2", "3", "4", "5", "6", "7", "8", "9" >>)[n + 1] >>

\* lines 73-77
NameKey(record) ==
    LET fullname == Lower(Strip(Get(record, "FULLNAME")))
        firstname == Lower(Strip(Get(record, "FIRSTNAME")))
        lastname == Lower(Strip(Get(record, "LASTNAME")))
    IN  IF fullname # << >> THEN fullname
        ELSE Strip(firstname \o << " " >> \o lastname)

\* lines 81-86: the first non-empty of WEBSITE, LINKEDIN, cut to 50 characters
CompanyHint(record) ==
    LET website == Lower(Strip(Get(record, "WEBSITE")))
        linkedin == Lower(Strip(Get(record, "LINKEDIN")))
        value == IF website # << >> THEN website ELSE linkedin
    IN  SubSeq(value, 1, IF Len(value) < HintLen THEN Len(value) ELSE HintLen)

\* a key generator that compares e-mail addresses case-sensitively
GenerateDedupKeyCaseSensitive(record, n) ==
    LET email == Strip(Get(record, "EMAIL"))
    IN  IF email # << >> THEN EMAILPREFIX \o email
        ELSE IF NameKey(record) # << >> THEN NAMEPREFIX \o NameKey(record)
        ELSE UNIQUEPREFIX \o Uuid4(n)

\* a key generator without the name_key test: a record without e-mail and
\* name gets the name key of the empty name
GenerateDedupKeyNoFallback(record, n) ==
    LET email == Lower(Strip(Get(record, "EMAIL")))
    IN  IF email # << >> THEN EMAILPREFIX \o email
        ELSE IF CompanyHint(record) # << >>
        THEN NAMEPREFIX \o NameKey(record) \o << ":", ":" >> \o CompanyHint(record)
        ELSE NAMEPREFIX \o NameKey(record)

\* lines 66-94; n is the number of uuid4 tokens drawn before the call
GenerateDedupKey(record, n) ==
    LET email == Lower(Strip(Get(record, "EMAIL")))
        name_key == NameKey(record)
        company_hint == CompanyHint(record)
    IN  IF email # << >> THEN EMAILPREFIX \o email
        ELSE IF name_key # << >>
        THEN IF company_hint # << >>
             THEN NAMEPREFIX \o name_key \o << ":", ":" >> \o company_hint
             ELSE NAMEPREFIX \o name_key
        ELSE UNIQUEPREFIX \o Uuid4(n)

\* whether the key came from the uuid4 fallback (line 94)
IsUniqueKey(key) == Len(key) >= Len(UNIQUEPREFIX) /\ SubSeq(key, 1, Len(UNIQUEPREFIX)) = UNIQUEPREFIX

-----------------------------------------------------------------------------
(* processor.py: ContactProcessor.process_records *)

\* lines 144-162 for one record; s holds contacts_db, email_to_key, the
\* uuid4 draws and the keys generated so far
ProcessRecord(record, s) ==
    LET dedup_key == GenerateDedupKey(record, s.uuids)
        drawn == IF IsUniqueKey(dedup_key) THEN s.uuids + 1 ELSE s.uuids
        email == Lower(Strip(Get(record, "EMAIL")))
    IN  IF dedup_key \in DOMAIN s.db
        THEN [ db |-> Put(s.db, dedup_key, MergeRecords(s.db[dedup_key], record)),
               e2k |-> s.e2k,
               uuids |-> drawn,
               keys |-> Append(s.keys, dedup_key) ]
        ELSE [ db |-> Put(s.db, dedup_key, record),
               e2k |-> IF email # << >> THEN Put(s.e2k, email, dedup_key) ELSE s.e2k,
               uuids |-> drawn,
               keys |-> Append(s.keys, dedup_key) ]

\* lines 143-162: the loop over the records from the k-th on
RECURSIVE ProcessLoop(_, _, _)
ProcessLoop(records, k, s) ==
    IF k > Len(records) THEN s
    ELSE ProcessLoop(records, k + 1, ProcessRecord(records[k], s))

-----------------------------------------------------------------------------
(* processor.py: _merge_records and process_records on dict objects *)

(* A Python dict is an object: two names may refer to one dict, and an       *)
(* assignment to a key of it is seen through both.  objs is the sequence of  *)
(* the dicts alive, and the identity of a dict is its index in it.           *)

\* a merge that writes into `existing` itself instead of a copy of it
MergeObjectsInPlace(objs, existing_id, new_id) ==
    [ objects |-> [ objs EXCEPT ![existing_id] = MergeRecords(objs[existing_id], objs[new_id]) ],
      merged |-> existing_id ]

\* lines 107-127: merged = existing.copy() is a new dict, the loop assigns
\* to merged only, and merged is returned
MergeObjects(objs, existing_id, new_id) ==
    [ objects |-> Append(objs, MergeRecords(objs[existing_id], objs[new_id])),
      merged |-> Len(objs) + 1 ]

\* lines 144-162 for the record new_id; s holds the objects, contacts_db and
\* email_to_key, the uuid4 draws, and the keys and merges of the call so far
ProcessObject(new_id, s) ==
    LET record == s.objects[new_id]
        dedup_key == GenerateDedupKey(record, s.uuids)
        drawn == IF IsUniqueKey(dedup_key) THEN s.uuids + 1 ELSE s.uuids
        email == Lower(Strip(Get(record, "EMAIL")))
    IN  IF dedup_key \in DOMAIN s.db
        THEN LET existing_id == s.db[dedup_key]
                 out == MergeObjects(s.objects, existing_id, new_id)
             IN  [ objects |-> out.objects,
                   db |-> Put(s.db, dedup_key, out.merged),
                   e2k |-> s.e2k,
                   uuids |-> drawn,
                   keys |-> Append(s.keys, dedup_key),
                   merges |-> Append(s.merges,
                       [ existing |-> existing_id, new |-> new_id, merged |-> out.merged,
                         existing_before |-> s.objects[existing_id],
                         new_before |-> s.objects[new_id],
                         existing_after |-> out.objects[existing_id],
                         new_after |-> out.objects[new_id] ]) ]
        ELSE [ objects |-> s.objects,
               db |-> Put(s.db, dedup_key, new_id),
               e2k |-> IF email # << >> THEN Put(s.e2k, email, dedup_key) ELSE s.e2k,
               uuids |-> drawn,
               keys |-> Append(s.keys, dedup_key),
               merges |-> s.merges ]

\* lines 143-162: the loop over the records, from the k-th on
RECURSIVE ProcessObjects(_, _, _)
ProcessObjects(ids, k, s) ==
    IF k > Len(ids) THEN s
    ELSE ProcessObjects(ids, k + 1, ProcessObject(ids[k], s))

-----------------------------------------------------------------------------
(* parser.py: value sanitizer *)

\* `needle in hay` of two Python strs
Contains(hay, needle) ==
    \E i \in 0..(Len(hay) - Len(needle)) : SubSeq(hay, i + 1, i + Len(needle)) = needle

\* the place of the first whitespace character of s, Len(s) + 1 if it has none
FirstGap(s) ==
    CHOOSE k \in 1..(Len(s) + 1) :
        /\ k = Len(s) + 1 \/ IsSpace(s[k])
        /\ \A j \in 1..(k - 1) : ~ IsSpace(s[j])

\* s.split(): the words between runs of whitespace
RECURSIVE Words(_)
Words(s) ==
    IF s = << >> THEN << >>
    ELSE IF IsSpace(s[1]) THEN Words(Tail(s))
    ELSE << SubSeq(s, 1, FirstGap(s) - 1) >> \o Words(SubSeq(s, FirstGap(s), Len(s)))

\* an empty cell as pandas gives it (float NaN), for which pd.isna is true
NaN == << "NaN" >>

\* str(value) of a cell that is not NaN: the cells of the model are strs
Str(value) == value

\* the pattern of line 35
LocalChars == UpperChars \cup LowerChars \cup DigitChars \cup { ".", "_", "%", "+", "-" }
DomainChars == UpperChars \cup LowerChars \cup DigitChars \cup { ".", "-" }
TldMinLen == 2

\* is_valid_email, lines 29-37
IsValidEmail(email) ==
    IF email = << >> \/ email = NaN THEN FALSE
    ELSE LET e == Strip(Str(email))
         IN  \E at \in 2..Len(e) : \E dot \in (at + 2)..Len(e) :
                 /\ e[at] = "@"
                 /\ \A k \in 1..(at - 1) : e[k] \in LocalChars
                 /\ \A k \in (at + 1)..(dot - 1) : e[k] \in DomainChars
                 /\ e[dot] = "."
                 /\ Len(e) - dot >= TldMinLen
                 /\ \A k \in (dot + 1)..Len(e) : e[k] \in UpperChars \cup LowerChars

\* lines 55-65; "U+FFFC" stands for the object replacement character
garbage_patterns ==
    { <<"#", "V", "A", "L", "U", "E", "!">>,
      <<"#", "R", "E", "F", "!">>,
      <<"#", "D", "I", "V", "/", "0", "!">>,
      <<"#", "N", "/", "A">>,
      <<"#", "N", "A", "M", "E", "?">>,
      <<"#", "N", "U", "L", "L", "!">>,
      <<"#", "N", "U", "M", "!">>,
      << "U+FFFC" >> }

\* contains_garbage, lines 49-67
ContainsGarbage(value) ==
    IF value = << >> \/ value = NaN THEN FALSE
    ELSE \E pattern \in garbage_patterns : Contains(Strip(Str(value)), pattern)

\* a cleaning that trims and keeps the garbage markers
CleanValueKeepingGarbage(value) ==
    IF value = << >> \/ value = NaN THEN << >>
    ELSE Strip(Str(value))

\* clean_value, lines 79-88
CleanValue(value) ==
    IF value = << >> \/ value = NaN THEN << >>
    ELSE IF ContainsGarbage(Strip(Str(value))) THEN << >>
    ELSE Strip(Str(value))

-----------------------------------------------------------------------------
(* schema.py: FIELD_MAPPINGS, in declaration order *)

FIELD_MAPPINGS ==
    <<
    << "EMAIL",
        << <<"e", "m", "a", "i", "l">>,
           <<"e", "-", "m", "a", "i", "l">>,
           <<"e", "m", "a", "i", "l", " ", "a", "d", "d", "r", "e", "s", "s">>,
           <<"e", "_", "m", "a", "i", "l">>,
           <<"m", "a", "i", "l">>,
           <<"h", "q", " ", "e", "m", "a", "i", "l">>,
           <<"p", "r", "i", "m", "a", "r", "y", " ", "c", "o", "n", "t", "a", "c", "t", " ", "e", "m", "a", "i", "l">>,
           <<"c", "o", "n", "t", "a", "c", "t", " ", "e", "m", "a", "i", "l">> >> >>,
    << "FULLNAME",
        << <<"f", "u", "l", "l", "n", "a", "m", "e">>,
           <<"f", "u", "l", "l", " ", "n", "a", "m", "e">>,
           <<"n", "a", "m", "e">>,
           <<"f", "u", "l", "l", "_", "n", "a", "m", "e">>,
           <<"c", "o", "n", "t", "a", "c", "t", " ", "n", "a", "m", "e">>,
           <<"p", "r", "i", "m", "a", "r", "y", " ", "c", "o", "n", "t", "a", "c", "t">> >> >>,
    << "FIRSTNAME",
        << <<"f", "i", "r", "s", "t", "n", "a", "m", "e">>,
           <<"f", "i", "r", "s", "t", " ", "n", "a", "m", "e">>,
           <<"f", "i", "r", "s", "t", "_", "n", "a", "m", "e">>,
           <<"f", "n", "a", "m", "e">>,
           <<"g", "i", "v", "e", "n", " ", "n", "a", "m", "e">>,
           <<"g", "i", "v", "e", "n", "n", "a", "m", "e">> >> >>,
    << "COMPANYNAME",
        << <<"c", "o", "m", "p", "a", "n", "y">>,
           <<"c", "o", "m", "p", "a", "n", "y", "n", "a", "m", "e">>,
           <<"c", "o", "m", "p", "a", "n", "y", " ", "n", "a", "m", "e">>,
           <<"c", "o", "m", "p", "a", "n", "y", "_", "n", "a", "m", "e">>,
           <<"o", "r", "g", "a", "n", "i", "z", "a", "t", "i", "o", "n">>,
           <<"o", "r", "g", "a", "n", "i", "s", "a", "t", "i", "o", "n">>,
           <<"o", "r", "g">>,
           <<"f", "i", "r", "m">>,
           <<"i", "n", "v", "e", "s", "t", "o", "r", "s">>,
           <<"i", "n", "v", "e", "s", "t", "o", "r">>,
           <<"i", "n", "v", "e", "s", "t", "o", "r", " ", "n", "a", "m", "e">> >> >>,
    << "LASTNAME",
        << <<"l", "a", "s", "t", "n", "a", "m", "e">>,
           <<"l", "a", "s", "t", " ", "n", "a", "m", "e">>,
           <<"l", "a", "s", "t", "_", "n", "a", "m", "e">>,
           <<"l", "n", "a", "m", "e">>,
           <<"s", "u", "r", "n", "a", "m", "e">>,
           <<"f", "a", "m", "i", "l", "y", " ", "n", "a", "m", "e">>,
           <<"f", "a", "m", "i", "l", "y", "n", "a", "m", "e">> >> >>,
    << "SMS",
        << <<"s", "m", "s">>,
           <<"m", "o", "b", "i", "l", "e">>,
           <<"m", "o", "b", "i", "l", "e", " ", "n", "u", "m", "b", "e", "r">>,
           <<"m", "o", "b", "i", "l", "e", " ", "p", "h", "o", "n", "e">>,
           <<"c", "e", "l", "l">>,
           <<"c", "e", "l", "l", "p", "h", "o", "n", "e">>,
           <<"c", "e", "l", "l", " ", "p", "h", "o", "n", "e">>,
           <<"m", "o", "b", "i", "l", "e", "_", "p", "h", "o", "n", "e">> >> >>,
    << "LANDLINE_NUMBER",
        << <<"l", "a", "n", "d", "l", "i", "n", "e">>,
           <<"l", "a", "n", "d", "l", "i", "n", "e", " ", "n", "u", "m", "b", "e", "r">>,
           <<"p", "h", "o", "n", "e">>,
           <<"t", "e", "l", "e", "p", "h", "o", "n", "e">>,
           <<"p", "h", "o", "n", "e", " ", "n", "u", "m", "b", "e", "r">>,
           <<"t", "e", "l">>,
           <<"h", "q", " ", "p", "h", "o", "n", "e">>,
           <<"p", "r", "i", "m", "a", "r", "y", " ", "c", "o", "n", "t", "a", "c", "t", " ", "p", "h", "o", "n", "e">> >> >>,
    << "WHATSAPP",
        << <<"w", "h", "a", "t", "s", "a", "p", "p">>,
           <<"w", "h", "a", "t", "s", "a", "p", "p", " ", "n", "u", "m", "b", "e", "r">>,
           <<"w", "a">>,
           <<"w", "h", "a", "t", "s", "a", "p", "p", "_", "n", "u", "m", "b", "e", "r">> >> >>,
    << "INTERESTS",
        << <<"i", "n", "t", "e", "r", "e", "s", "t", "s">>,
           <<"i", "n", "t", "e", "r", "e", "s", "t">>,
           <<"t", "a", "g", "s">>,
           <<"c", "a", "t", "e", "g", "o", "r", "i", "e", "s">>,
           <<"p", "r", "e", "f", "e", "r", "r", "e", "d", " ", "i", "n", "d", "u", "s", "t", "r", "y">>,
           <<"p", "r", "e", "f", "e", "r", "r", "e", "d", " ", "v", "e", "r", "t", "i", "c", "a", "l", "s">>,
           <<"v", "e", "r", "t", "i", "c", "a", "l", "s">>,
           <<"p", "r", "i", "m", "a", "r", "y", " ", "i", "n", "d", "u", "s", "t", "r", "y", " ", "s", "e", "c", "t", "o", "r">>,
           <<"d", "e", "s", "c", "r", "i", "p", "t", "i", "o", "n">> >> >>,
    << "LINKEDIN",
        << <<"l", "i", "n", "k", "e", "d", "i", "n">>,
           <<"l", "i", "n", "k", "e", "d", "i", "n", " ", "u", "r", "l">>,
           <<"l", "i", "n", "k", "e", "d", "i", "n", " ", "p", "r", "o", "f", "i", "l", "e">>,
           <<"l", "i", "n", "k", "e", "d", "i", "n", "_", "u", "r", "l">>,
           <<"l", "i", "n", "k", "e", "d", "i", "n", "_", "p", "r", "o", "f", "i", "l", "e">> >> >>,
    << "FACEBOOK",
        << <<"f", "a", "c", "e", "b", "o", "o", "k">>,
           <<"f", "a", "c", "e", "b", "o", "o", "k", " ", "u", "r", "l">>,
           <<"f", "a", "c", "e", "b", "o", "o", "k", " ", "p", "r", "o", "f", "i", "l", "e">>,
           <<"f", "a", "c", "e", "b", "o", "o", "k", "_", "u", "r", "l">>,
           <<"f", "a", "c", "e", "b", "o", "o", "k", "_", "p", "r", "o", "f", "i", "l", "e">> >> >>,
    << "WEBSITE",
        << <<"w", "e", "b", "s", "i", "t", "e">>,
           <<"w", "e", "b">>,
           <<"u", "r", "l">>,
           <<"s", "i", "t", "e">>,
           <<"h", "o", "m", "e", "p", "a", "g", "e">>,
           <<"w", "e", "b", " ", "s", "i", "t", "e">>,
           <<"w", "e", "b", "_", "s", "i", "t", "e">>,
           <<"c", "o", "m", "p", "a", "n", "y", " ", "w", "e", "b", "s", "i", "t", "e">> >> >>,
    << "ADDRESS1",
        << <<"a", "d", "d", "r", "e", "s", "s", "1">>,
           <<"a", "d", "d", "r", "e", "s", "s", " ", "l", "i", "n", "e", " ", "1">>,
           <<"a", "d", "d", "r", "e", "s", "s", "_", "l", "i", "n", "e", "_", "1">>,
           <<"a", "d", "d", "r", "e", "s", "s">>,
           <<"s", "t", "r", "e", "e", "t">>,
           <<"s", "t", "r", "e", "e", "t", " ", "a", "d", "d", "r", "e", "s", "s">>,
           <<"h", "q", " ", "a", "d", "d", "r", "e", "s", "s", " ", "l", "i", "n", "e", " ", "1">>,
           <<"h", "q", " ", "a", "d", "d", "r", "e", "s", "s">> >> >>,
    << "ADDRESS2",
        << <<"a", "d", "d", "r", "e", "s", "s", "2">>,
           <<"a", "d", "d", "r", "e", "s", "s", " ", "l", "i", "n", "e", " ", "2">>,
           <<"a", "d", "d", "r", "e", "s", "s", "_", "l", "i", "n", "e", "_", "2">>,
           <<"a", "d", "d", "r", "e", "s", "s", " ", "l", "i", "n", "e", "2">>,
           <<"h", "q", " ", "a", "d", "d", "r", "e", "s", "s", " ", "l", "i", "n", "e", " ", "2">> >> >>,
    << "CITY",
        << <<"c", "i", "t", "y">>,
           <<"t", "o", "w", "n">>,
           <<"m", "u", "n", "i", "c", "i", "p", "a", "l", "i", "t", "y">>,
           <<"h", "q", " ", "c", "i", "t", "y">>,
           <<"h", "q", " ", "l", "o", "c", "a", "t", "i", "o", "n">> >> >>,
    << "COUNTRY",
        << <<"c", "o", "u", "n", "t", "r", "y">>,
           <<"c", "o", "u", "n", "t", "r", "y", "/", "t", "e", "r", "r", "i", "t", "o", "r", "y">>,
           <<"n", "a", "t", "i", "o", "n">>,
           <<"h", "q", " ", "c", "o", "u", "n", "t", "r", "y">>,
           <<"h", "q", " ", "c", "o", "u", "n", "t", "r", "y", "/", "t", "e", "r", "r", "i", "t", "o", "r", "y">> >> >>,
    << "POSTCODE",
        << <<"p", "o", "s", "t", "c", "o", "d", "e">>,
           <<"p", "o", "s", "t", " ", "c", "o", "d", "e">>,
           <<"p", "o", "s", "t", "a", "l", " ", "c", "o", "d", "e">>,
           <<"z", "i", "p">>,
           <<"z", "i", "p", " ", "c", "o", "d", "e">>,
           <<"p", "o", "s", "t", "a", "l", "_", "c", "o", "d", "e">>,
           <<"z", "i", "p", "c", "o", "d", "e">>,
           <<"s", "t", "a", "t", "e", "_", "p", "r", "o", "v", "i", "n", "c", "e", "_", "r", "e", "g", "i", "o", "n">>,
           <<"h", "q", " ", "p", "o", "s", "t", " ", "c", "o", "d", "e">> >> >>
    >>

-----------------------------------------------------------------------------
(* parser.py: FileParser.map_fields *)

\* line 233: {col.lower(): col for col in df.columns} as the list of its
\* items: a key keeps the place of its first column and the name of its last
InputColumns(columns) ==
    LET lower == [ k \in 1..Len(columns) |-> Lower(columns[k]) ]
        first == { k \in 1..Len(columns) : \A j \in 1..(k - 1) : lower[j] # lower[k] }
        last(k) == CHOOSE j \in 1..Len(columns) :
                       lower[j] = lower[k] /\ \A i \in (j + 1)..Len(columns) : lower[i] # lower[k]
        RECURSIVE items(_)
        items(k) == IF k > Len(columns) THEN << >>
                    ELSE (IF k \in first THEN << << lower[k], columns[last(k)] >> >> ELSE << >>)
                         \o items(k + 1)
    IN  items(1)

\* lines 238-250 for one pattern: the mapping after it, and whether the
\* loop over the patterns breaks
\* a pattern step whose exact match leaves a field already bound as it is
MapPatternKeepingBinding(mapping, output_field, pattern, input_columns) ==
    LET pattern_lower == Lower(pattern)
        exact == { k \in 1..Len(input_columns) : input_columns[k][1] = pattern_lower }
        partial == { k \in 1..Len(input_columns) :
                        \/ Contains(input_columns[k][1], pattern_lower)
                        \/ Contains(pattern_lower, input_columns[k][1]) }
    IN  IF exact # {}
        THEN [ mapping |-> IF output_field \in DOMAIN mapping THEN mapping
                           ELSE Put(mapping, output_field,
                                    input_columns[CHOOSE k \in exact : TRUE][2]),
               break |-> TRUE ]
        ELSE IF partial # {} /\ output_field \notin DOMAIN mapping
        THEN [ mapping |-> Put(mapping, output_field,
                               input_columns[CHOOSE k \in partial : \A j \in partial : k <= j][2]),
               break |-> FALSE ]
        ELSE [ mapping |-> mapping, break |-> FALSE ]

MapPattern(mapping, output_field, pattern, input_columns) ==
    LET pattern_lower == Lower(pattern)
        exact == { k \in 1..Len(input_columns) : input_columns[k][1] = pattern_lower }
        partial == { k \in 1..Len(input_columns) :
                        \/ Contains(input_columns[k][1], pattern_lower)
                        \/ Contains(pattern_lower, input_columns[k][1]) }
    IN  IF exact # {}
        THEN [ mapping |-> Put(mapping, output_field,
                               input_columns[CHOOSE k \in exact : TRUE][2]),
               break |-> TRUE ]
        ELSE IF partial # {} /\ output_field \notin DOMAIN mapping
        THEN [ mapping |-> Put(mapping, output_field,
                               input_columns[CHOOSE k \in partial : \A j \in partial : k <= j][2]),
               break |-> FALSE ]
        ELSE [ mapping |-> mapping, break |-> FALSE ]

\* lines 237-250: the loop over the patterns of one output field
RECURSIVE MapPatterns(_, _, _, _, _)
MapPatterns(mapping, output_field, patterns, i, input_columns) ==
    IF i > Len(patterns) THEN mapping
    ELSE LET step == MapPattern(mapping, output_field, patterns[i], input_columns)
         IN  IF step.break THEN step.mapping
             ELSE MapPatterns(step.mapping, output_field, patterns, i + 1, input_columns)

\* lines 236-252: the loop over FIELD_MAPPINGS
RECURSIVE MapFieldsFrom(_, _, _)
MapFieldsFrom(mapping, n, input_columns) ==
    IF n > Len(FIELD_MAPPINGS) THEN mapping
    ELSE MapFieldsFrom(
             MapPatterns(mapping, FIELD_MAPPINGS[n][1], FIELD_MAPPINGS[n][2], 1, input_columns),
             n + 1, input_columns)

NoMapping == [ f \in {} |-> << >> ]

\* map_fields(df), lines 232-252
MapFields(columns) == MapFieldsFrom(NoMapping, 1, InputColumns(columns))

-----------------------------------------------------------------------------
(* parser.py: FileParser.is_likely_company_name, extract_name_parts *)

\* lines 270-279
company_indicators ==
    { <<"l", "t", "d">>,
      <<"l", "i", "m", "i", "t", "e", "d">>,
      <<"l", "l", "c">>,
      <<"i", "n", "c">>,
      <<"c", "o", "r", "p">>,
      <<"c", "o", "r", "p", "o", "r", "a", "t", "i", "o", "n">>,
      <<"c", "o", "m", "p", "a", "n", "y">>,
      <<"c", "o", ".">>,
      <<"p", "l", "c">>,
      <<"g", "m", "b", "h">>,
      <<"s", "a">>,
      <<"a", "g">>,
      <<"n", "v">>,
      <<"p", "t", "y">>,
      <<"g", "r", "o", "u", "p">>,
      <<"h", "o", "l", "d", "i", "n", "g", "s">>,
      <<"e", "n", "t", "e", "r", "p", "r", "i", "s", "e", "s">>,
      <<"i", "n", "d", "u", "s", "t", "r", "i", "e", "s">>,
      <<"s", "o", "l", "u", "t", "i", "o", "n", "s">>,
      <<"s", "e", "r", "v", "i", "c", "e", "s">>,
      <<"c", "o", "n", "s", "u", "l", "t", "i", "n", "g">>,
      <<"t", "e", "c", "h", "n", "o", "l", "o", "g", "i", "e", "s">>,
      <<"s", "y", "s", "t", "e", "m", "s">>,
      <<"p", "a", "r", "t", "n", "e", "r", "s">>,
      <<"a", "s", "s", "o", "c", "i", "a", "t", "e", "s">>,
      <<"v", "e", "n", "t", "u", "r", "e">>,
      <<"c", "a", "p", "i", "t", "a", "l">>,
      <<"i", "n", "v", "e", "s", "t", "m", "e", "n", "t">>,
      <<"f", "u", "n", "d">>,
      <<"m", "a", "n", "a", "g", "e", "m", "e", "n", "t">>,
      <<"t", "r", "u", "s", "t">>,
      <<"f", "o", "u", "n", "d", "a", "t", "i", "o", "n">>,
      <<"&">>,
      <<" ", "a", "n", "d", " ">>,
      <<" ", "t", "h", "e", " ">>,
      <<"e", "q", "u", "i", "t", "y">>,
      <<"v", "e", "n", "t", "u", "r", "e", "s">>,
      <<"a", "d", "v", "i", "s", "o", "r", "s">>,
      <<"f", "u", "t", "u", "r", "e", "s">>,
      <<"f", "a", "c", "t", "o", "r">> }

\* line 293
person_titles == { <<"d", "r">>, <<"m", "r">>, <<"m", "s">>, <<"m", "r", "s">> }

\* str.isupper(): some cased character, and no lower-case one
IsUpper(text) ==
    /\ \E k \in 1..Len(text) : text[k] \in UpperChars
    /\ \A k \in 1..Len(text) : text[k] \notin LowerChars

AllCapsMinLen == 2

\* is_likely_company_name, lines 264-296
IsLikelyCompanyName(text) ==
    IF text = << >> \/ text = NaN THEN FALSE
    ELSE LET text_lower == Lower(Strip(Str(text)))
             parts == Words(text_lower)
         IN  \/ \E indicator \in company_indicators : Contains(text_lower, indicator)
             \/ Len(parts) >= 2 /\ \A k \in 1..Len(parts) : parts[k] = parts[1]
             \/ /\ IsUpper(text)
                /\ Len(text) > AllCapsMinLen
                /\ ~ \E word \in person_titles : Contains(text_lower, word)

SPACE == << " " >>

\* every word but the last as the first name, whatever their number
ExtractNamePartsLastWord(fullname) ==
    IF fullname = << >> \/ fullname = NaN THEN << << >>, << >> >>
    ELSE LET parts == Words(Strip(Str(fullname)))
             n == Len(parts)
         IN  IF n = 0 THEN << << >>, << >> >>
             ELSE IF n = 1 THEN << parts[1], << >> >>
             ELSE << Join(SubSeq(parts, 1, n - 1), SPACE), parts[n] >>

\* extract_name_parts, lines 311-337: the pair (firstname, lastname)
ExtractNameParts(fullname) ==
    IF fullname = << >> \/ fullname = NaN THEN << << >>, << >> >>
    ELSE LET parts == Words(Strip(Str(fullname)))
             n == Len(parts)
         IN  IF n = 0 THEN << << >>, << >> >>
             ELSE IF n = 1 THEN << parts[1], << >> >>
             ELSE IF n = 2 THEN << parts[1], parts[2] >>
             ELSE IF n > 3
             THEN << Join(SubSeq(parts, 1, n - 2), SPACE), Join(SubSeq(parts, n - 1, n), SPACE) >>
             ELSE << Join(SubSeq(parts, 1, n - 1), SPACE), parts[n] >>

-----------------------------------------------------------------------------
(* parser.py: FileParser.parse_file *)

\* row.get(input_column, ''): the cell of the row under that column
RowGet(columns, row, input_column) ==
    IF \E k \in 1..Len(columns) : columns[k] = input_column
    THEN row[CHOOSE k \in 1..Len(columns) : columns[k] = input_column]
    ELSE << >>

\* a cell copied without cleaning
RawCell(value) == Str(value)

\* line 374
CleanCell(value) == CleanValue(Strip(Str(value)))

\* lines 368-375: the template filled with the cleaned cells of the mapped columns
MapRow(mapping, columns, row) ==
    [ output_field \in FieldNames |->
        IF output_field \in DOMAIN mapping
           /\ RowGet(columns, row, mapping[output_field]) # NaN
        THEN CleanCell(RowGet(columns, row, mapping[output_field]))
        ELSE get_output_template[output_field] ]

\* line 378
HasGarbage(record) ==
    \E f \in DOMAIN record : record[f] # << >> /\ ContainsGarbage(Str(record[f]))

\* a test that rejects only the empty address
EmailRejectedIfEmpty(record) == record["EMAIL"] = << >>

\* no row rejected for its EMAIL
EmailNeverRejected(record) == FALSE

\* line 384
EmailRejected(record) ==
    record["EMAIL"] = << >> \/ ~ IsValidEmail(record["EMAIL"])

\* the company test by indicator alone: lines 390-394 without 398-411
HasCompanyNameByIndicator(record) ==
    \/ IsLikelyCompanyName(record["FIRSTNAME"])
    \/ IsLikelyCompanyName(record["LASTNAME"])
    \/ IsLikelyCompanyName(record["FULLNAME"])

\* lines 390-411
HasCompanyName(record) ==
    \/ IsLikelyCompanyName(record["FIRSTNAME"])
    \/ IsLikelyCompanyName(record["LASTNAME"])
    \/ IsLikelyCompanyName(record["FULLNAME"])
    \/ /\ record["FIRSTNAME"] # << >> /\ record["LASTNAME"] # << >> /\ record["FULLNAME"] # << >>
       /\ record["FIRSTNAME"] = record["LASTNAME"] /\ record["LASTNAME"] = record["FULLNAME"]
       /\ Len(Words(record["FULLNAME"])) = 1
    \/ /\ Get(record, "COMPANYNAME") # << >>
       /\ Strip(record["COMPANYNAME"]) # << >>
       /\ \/ record["FIRSTNAME"] = Strip(record["COMPANYNAME"])
          \/ record["LASTNAME"] = Strip(record["COMPANYNAME"])
          \/ record["FULLNAME"] = Strip(record["COMPANYNAME"])

\* the company branch clearing FULLNAME only
ResolveNamesClearFullname(record) ==
    IF HasCompanyName(record) THEN Put(record, "FULLNAME", << >>) ELSE record

\* FULLNAME split over FIRSTNAME and LASTNAME, populated or not
ResolveNamesOverwriting(record) ==
    LET first == record["FIRSTNAME"]
        last == record["LASTNAME"]
        full == record["FULLNAME"]
    IN  IF HasCompanyName(record)
        THEN Put(Put(Put(record, "FIRSTNAME", << >>), "LASTNAME", << >>), "FULLNAME", << >>)
        ELSE IF full # << >> /\ (first = << >> \/ last = << >>)
        THEN LET names == ExtractNameParts(full)
             IN  Put(Put(record, "FIRSTNAME", names[1]), "LASTNAME", names[2])
        ELSE IF full = << >> /\ (first # << >> \/ last # << >>)
        THEN Put(record, "FULLNAME", Strip(first \o SPACE \o last))
        ELSE record

\* the name rules without the joining of FIRSTNAME and LASTNAME into FULLNAME
ResolveNamesWithoutJoin(record) ==
    LET first == record["FIRSTNAME"]
        last == record["LASTNAME"]
        full == record["FULLNAME"]
    IN  IF HasCompanyName(record)
        THEN Put(Put(Put(record, "FIRSTNAME", << >>), "LASTNAME", << >>), "FULLNAME", << >>)
        ELSE IF /\ first # << >> /\ last # << >>
                /\ Strip(first) = Strip(last)
                /\ Contains(Strip(first), SPACE)
        THEN LET names == ExtractNameParts(first)
             IN  Put(Put(record, "FIRSTNAME", names[1]), "LASTNAME", names[2])
        ELSE IF full # << >> /\ (first = << >> \/ last = << >>)
        THEN LET names == ExtractNameParts(full)
                 withFirst == IF first = << >> THEN Put(record, "FIRSTNAME", names[1]) ELSE record
             IN  IF last = << >> THEN Put(withFirst, "LASTNAME", names[2]) ELSE withFirst
        ELSE record

\* lines 413-443
ResolveNames(record) ==
    LET first == record["FIRSTNAME"]
        last == record["LASTNAME"]
        full == record["FULLNAME"]
    IN  IF HasCompanyName(record)
        THEN Put(Put(Put(record, "FIRSTNAME", << >>), "LASTNAME", << >>), "FULLNAME", << >>)
        ELSE IF /\ first # << >> /\ last # << >>
                /\ Strip(first) = Strip(last)
                /\ Contains(Strip(first), SPACE)
        THEN LET names == ExtractNameParts(first)
                 split == Put(Put(record, "FIRSTNAME", names[1]), "LASTNAME", names[2])
             IN  IF full = << >>
                 THEN Put(split, "FULLNAME", Strip(names[1] \o SPACE \o names[2]))
                 ELSE split
        ELSE IF full # << >> /\ (first = << >> \/ last = << >>)
        THEN LET names == ExtractNameParts(full)
                 withFirst == IF first = << >> THEN Put(record, "FIRSTNAME", names[1]) ELSE record
             IN  IF last = << >> THEN Put(withFirst, "LASTNAME", names[2]) ELSE withFirst
        ELSE IF full = << >> /\ (first # << >> \/ last # << >>)
        THEN Put(record, "FULLNAME", Strip(first \o SPACE \o last))
        ELSE record

\* a rejected row discarding the records collected before it
ParseRowDroppingBatch(mapping, columns, row, idx, p) ==
    LET kept[record \in { MapRow(mapping, columns, row) }] ==
            IF HasGarbage(record) \/ EmailRejected(record)
            THEN [ p EXCEPT !.records = << >>, !.emitted = << >>,
                            !.skipped_invalid_email = @ + 1 ]
            ELSE [ p EXCEPT !.records = Append(@, ResolveNames(record)),
                            !.emitted = Append(@, idx) ]
    IN  kept[MapRow(mapping, columns, row)]

\* lines 368-445 for the row idx; p holds records, emitted (the idx of the
\* row of each record) and the two counters
ParseRow(mapping, columns, row, idx, p) ==
    LET kept[record \in { MapRow(mapping, columns, row) }] ==
            IF HasGarbage(record)
            THEN [ p EXCEPT !.skipped_garbage = @ + 1 ]
            ELSE IF EmailRejected(record)
            THEN [ p EXCEPT !.skipped_invalid_email = @ + 1 ]
            ELSE [ p EXCEPT !.records = Append(@, ResolveNames(record)),
                            !.emitted = Append(@, idx) ]
    IN  kept[MapRow(mapping, columns, row)]

\* lines 367-445: the loop over the rows from row idx on
RECURSIVE ParseRows(_, _, _, _, _)
ParseRows(mapping, columns, rows, idx, p) ==
    IF idx > Len(rows) THEN p
    ELSE ParseRows(mapping, columns, rows, idx + 1,
                   ParseRow(mapping, columns, rows[idx], idx, p))

\* lines 363-454 with the mapping of line 359
ParseMapped(mapping, columns, rows) ==
    ParseRows(mapping, columns, rows, 1,
              [ records |-> << >>, emitted |-> << >>,
                skipped_invalid_email |-> 0, skipped_garbage |-> 0 ])

\* lines 352-354: what parse_file returns for an empty DataFrame
NothingParsed ==
    [ records |-> << >>, emitted |-> << >>, skipped_invalid_email |-> 0, skipped_garbage |-> 0 ]

-----------------------------------------------------------------------------
(* main.py *)

\* Path.suffix: the name from its last dot on; empty when the name has no
\* dot, or only a leading or a trailing one
Suffix(name) ==
    IF \E k \in 1..Len(name) : name[k] = "."
    THEN LET dot == CHOOSE k \in 1..Len(name) :
                        name[k] = "." /\ \A j \in (k + 1)..Len(name) : name[j] # "."
         IN  IF dot > 1 /\ dot < Len(name) THEN SubSeq(name, dot, Len(name)) ELSE << >>
    ELSE << >>

\* lines 50 and 96
Extensions ==
    { <<".", "c", "s", "v">>, <<".", "x", "l", "s", "x">>, <<".", "x", "l", "s">>,
      <<".", "t", "x", "t">> }

\* line 50
Eligible(name) == Lower(Suffix(name)) \in Extensions

\* lines 96-97: the name matches '*.csv', '*.xlsx', '*.xls' or '*.txt'
Globbed(name) ==
    \E ext \in Extensions :
        Len(name) >= Len(ext) /\ SubSeq(name, Len(name) - Len(ext) + 1, Len(name)) = ext

\* a handler and a scan that skip no file
NeverProcessed(name) == FALSE

\* lines 58 and 100
AlreadyProcessed(name) == name \in processed_files

\* the watcher started before the existing files are processed
MainProgramWatchFirst == << "observer.start", "process_existing_files" >>

\* main(), lines 155 and 166, after which the main thread sleeps
MainProgram == << "process_existing_files", "observer.start" >>

\* the main thread is at that statement of main()
AtStatement(statement) ==
    main_at \in DOMAIN MainProgram /\ MainProgram[main_at] = statement

\* the main thread, and the thread of the Observer, which takes the events
\* of its queue one after the other and calls the handler for each
Threads == { "main", "observer" }

\* a thread that is not in process_records
NoWork ==
    [ active |-> FALSE, file |-> << >>, records |-> << >>,
      reading |-> FALSE, key |-> << >>, found |-> FALSE, entry |-> get_output_template ]

\* records = parser.parse_file(file_path), lines 68 and 111, on a file
\* holding that DataFrame
ParseFrame(frame) ==
    IF frame.rows = << >> THEN << >>
    ELSE ParseMapped(MapFields(frame.columns), frame.columns, frame.rows).records

-----------------------------------------------------------------------------
(* validate_dns.py, validate_smtp.py *)

\* Python None
None == << "None" >>

\* email.split('@')[1]: the text after the first '@', up to the next one
AfterAt(email) ==
    LET first == CHOOSE k \in 1..Len(email) :
                     email[k] = "@" /\ \A j \in 1..(k - 1) : email[j] # "@"
        rest == SubSeq(email, first + 1, Len(email))
    IN  IF \E k \in 1..Len(rest) : rest[k] = "@"
        THEN SubSeq(rest, 1, (CHOOSE k \in 1..Len(rest) :
                                 rest[k] = "@" /\ \A j \in 1..(k - 1) : rest[j] # "@") - 1)
        ELSE rest

\* extract_domain, validate_dns.py lines 20-24 and validate_smtp.py lines 26-30
ExtractDomain(email) ==
    IF email = << >> \/ ~ \E k \in 1..Len(email) : email[k] = "@" THEN None
    ELSE Lower(Strip(AfterAt(email)))

\* validate_email_dns, lines 67-90; has_a and has_mx are what
\* validate_domain_dns and validate_domain_mx return for the domain
ValidateEmailDns(email, has_a, has_mx) ==
    IF ExtractDomain(email) = None \/ ExtractDomain(email) = << >>
    THEN [ is_valid |-> FALSE, reason |-> "Invalid email format" ]
    ELSE IF ~ has_a THEN [ is_valid |-> FALSE, reason |-> "Domain does not exist" ]
    ELSE IF ~ has_mx THEN [ is_valid |-> FALSE, reason |-> "No MX records found" ]
    ELSE [ is_valid |-> TRUE, reason |-> "Valid" ]

\* validate_email_smtp, lines 78-152: the loop over the MX hosts from the
\* k-th on; a host raises on connection, or answers HELO, MAIL FROM and
\* RCPT TO with a code each
RECURSIVE TryHosts(_, _, _)
TryHosts(mx_hosts, k, use_fallback) ==
    IF k > Len(mx_hosts)
    THEN IF use_fallback
         THEN [ is_valid |-> TRUE, reason |-> "Cannot verify (accepting)" ]
         ELSE [ is_valid |-> FALSE, reason |-> "All MX hosts failed" ]
    ELSE IF mx_hosts[k].raises \/ mx_hosts[k].helo # 250 \/ mx_hosts[k].mail # 250
    THEN TryHosts(mx_hosts, k + 1, use_fallback)
    ELSE IF mx_hosts[k].rcpt = 250 THEN [ is_valid |-> TRUE, reason |-> "Mailbox verified" ]
    ELSE IF mx_hosts[k].rcpt = 251 THEN [ is_valid |-> TRUE, reason |-> "Will forward" ]
    ELSE IF mx_hosts[k].rcpt = 252
    THEN IF use_fallback
         THEN [ is_valid |-> TRUE, reason |-> "Cannot verify (accepting)" ]
         ELSE [ is_valid |-> FALSE, reason |-> "Cannot verify" ]
    ELSE IF mx_hosts[k].rcpt >= 550 THEN [ is_valid |-> FALSE, reason |-> "Mailbox does not exist" ]
    ELSE TryHosts(mx_hosts, k + 1, use_fallback)

\* validate_email_smtp, lines 64-76; mx_hosts is what get_mx_hosts returns
ValidateEmailSmtp(email, mx_hosts, use_fallback) ==
    IF ExtractDomain(email) = None \/ ExtractDomain(email) = << >>
    THEN [ is_valid |-> FALSE, reason |-> "Invalid email format" ]
    ELSE IF mx_hosts = << >> THEN [ is_valid |-> FALSE, reason |-> "No MX records found" ]
    ELSE TryHosts(mx_hosts, 1, use_fallback)

(* A CSV file is its header line, its rows of cells and its line ending.     *)

\* a path no file is at
Absent == [ exists |-> FALSE, header |-> None, rows |-> << >>, eol |-> "LF" ]

\* src.read() of a file opened in text mode, written to a file opened with
\* newline='' (lines 120-122, 185-187): every line ending is read as '\n'
\* and written as it was read
CopiedText(content) == [ content EXCEPT !.eol = "LF" ]

\* the position of the field in the header
FieldIndex(header, field) == CHOOSE k \in 1..Len(header) : header[k] = field

\* csv.DictReader: the dict of one row; a cell the row lacks is None, and
\* the cells beyond the header are a list under the key None
DictRow(header, row) ==
    [ cells |-> [ field \in { header[k] : k \in 1..Len(header) } |->
                    IF FieldIndex(header, field) <= Len(row)
                    THEN row[FieldIndex(header, field)]
                    ELSE None ],
      extra |-> IF Len(row) > Len(header)
                THEN SubSeq(row, Len(header) + 1, Len(row))
                ELSE << >> ]

\* list(csv.DictReader(f)), lines 128-130 and 193-195
DictRows(content) ==
    IF content.header = None THEN << >>
    ELSE [ k \in 1..Len(content.rows) |-> DictRow(content.header, content.rows[k]) ]

\* contact.get('EMAIL', '')
ContactEmail(contact) ==
    IF "EMAIL" \in DOMAIN contact.cells THEN contact.cells["EMAIL"] ELSE << >>

\* csv.DictWriter: the cells written for a dict, None written as ''
WrittenRow(header, contact) ==
    [ k \in 1..Len(header) |->
        IF contact.cells[header[k]] = None THEN << >> ELSE contact.cells[header[k]] ]

-----------------------------------------------------------------------------
(* Records merged into one store entry *)

MaxValLen == 2

\* strings over {a, b} of length at most n
RECURSIVE StringsUpTo(_)
StringsUpTo(n) ==
    IF n = 0 THEN { << >> }
    ELSE LET shorter == StringsUpTo(n - 1)
         IN  shorter \cup { s \o << c >> : s \in shorter, c \in {"a", "b"} }

PlainValues == StringsUpTo(MaxValLen)

\* INTERESTS cells: one token, or two tokens separated by a comma with or
\* without a space after it, in any order, empty tokens included; trimmed
\* as every cell of a canonical record is
InterestTokenPool == { << >>, <<"a">>, <<"B">>, <<"a", "b">> }
InterestSeparators == { <<",">>, <<",", " ">> }
InterestValues ==
    { Strip(s) : s \in InterestTokenPool \cup
                       { t \o sep \o u : t \in InterestTokenPool,
                                         sep \in InterestSeparators,
                                         u \in InterestTokenPool } }

S_a_b_co == <<"a", "@", "b", ".", "c", "o">>
S_A_b_co == <<"A", "@", "b", ".", "c", "o">>
S_A_B_co == <<"A", "@", "B", ".", "c", "o">>
S_c_b_co == <<"c", "@", "b", ".", "c", "o">>

\* records of one contact: they share the e-mail address up to case
EmailValues == { S_a_b_co, S_A_b_co }

ValuesOf(field) ==
    IF field = "EMAIL" THEN EmailValues
    ELSE IF field = "INTERESTS" THEN InterestValues
    ELSE PlainValues

ContactRecord(field, value) ==
    Put(Put(get_output_template, "EMAIL", S_a_b_co), field, value)

\* the fields an incoming record of a behaviour may populate besides EMAIL:
\* the one the store entry already populates, or any while it populates none
VariedFields(entry) ==
    LET populated == { f \in FieldNames \ {"EMAIL"} : entry[f] # << >> }
    IN  IF populated = {} THEN FieldNames ELSE populated \cup {"EMAIL"}

\* the state of a ContactProcessor constructed on an empty output directory
\* (lines 20-22), before any process_records call
EmptyDb == [ k \in {} |-> get_output_template ]

StoreIdle ==
    /\ contacts_db = EmptyDb
    /\ email_to_key = EmptyDb
    /\ processed_files = {}
    /\ uuids = 0
    /\ batch = << >>
    /\ keys = << >>
    /\ prev_db = EmptyDb

\* no merge observed
MergeIdle ==
    /\ existing = get_output_template
    /\ new = get_output_template
    /\ merged = get_output_template
    /\ phase = "idle"
    /\ repeated = FALSE

\* no file parsed
NoFrame == [ columns |-> << >>, rows |-> << >> ]

ParseIdle ==
    /\ df = NoFrame
    /\ field_mapping = NoMapping
    /\ parsed_records = << >>
    /\ emitted = << >>
    /\ skipped_invalid_email = 0
    /\ skipped_garbage = 0

\* extract_name_parts not called
NotCalled == << >>

NamesIdle ==
    /\ name_input = << >>
    /\ name_parts = NotCalled

\* no process_records call made
NoCall ==
    [ records |-> << >>, keys |-> << >>, merges |-> << >>,
      objects_before |-> << >>, db_before |-> EmptyDb ]

RefsIdle ==
    /\ objects = << >>
    /\ db_ref = EmptyDb
    /\ call = NoCall

\* the files that may be put in the ingest directory: a CSV file, a text
\* file, and a file the validator has no reader for
FileNames ==
    { <<"a", ".", "c", "s", "v">>, <<"b", ".", "t", "x", "t">>, <<"n", ".", "p", "d", "f">> }

NoneCounted == [ name \in FileNames |-> 0 ]

\* main() not started
MainIdle ==
    /\ ingest = {}
    /\ main_at = 1
    /\ main_pc = "call"
    /\ files_to_process = << >>
    /\ observer_pc = "off"
    /\ event_queue = << >>
    /\ processing = {}
    /\ work = [ t \in Threads |-> NoWork ]
    /\ parses = NoneCounted
    /\ folds = NoneCounted
    /\ handled = NoneCounted
    /\ seen = {}
    /\ events = 0

\* the places of the files a validator run touches
Paths == { "input", "backup", "output" }

\* no process_contacts_file call
NoArgs == [ validator |-> "none", output |-> "input", create_backup |-> FALSE,
            use_fallback |-> FALSE ]

\* no validator started
ValIdle ==
    /\ fs = [ path \in Paths |-> Absent ]
    /\ val_args = NoArgs
    /\ val_pc = "idle"
    /\ original = Absent
    /\ fieldnames = None
    /\ contacts = << >>
    /\ verdicts = << >>
    /\ valid_contacts = << >>
    /\ io_log = << >>

-----------------------------------------------------------------------------
(* SpecMerge: merges into one store entry (process_records, lines 146-151) *)

InitMerge ==
    \E field \in FieldNames : \E value \in ValuesOf(field) :
        /\ merged = ContactRecord(field, value)
        /\ existing = merged
        /\ new = merged
        /\ phase = "inserted"
        /\ repeated = FALSE
        /\ StoreIdle
        /\ ParseIdle
        /\ NamesIdle
        /\ RefsIdle
        /\ MainIdle
        /\ ValIdle

\* contacts_db[key] = _merge_records(contacts_db[key], record)
MergeIncoming ==
    \E field \in VariedFields(merged) : \E value \in ValuesOf(field) :
        /\ existing' = merged
        /\ new' = ContactRecord(field, value)
        /\ merged' = MergeRecords(merged, new')
        /\ phase' = "merged"
        /\ repeated' = (phase = "merged" /\ new' = new)
        /\ UNCHANGED <<storeVars, parseVars, nameVars, refVars, mainVars, valVars>>

NextMerge == MergeIncoming

SpecMerge == InitMerge /\ [][NextMerge]_vars

-----------------------------------------------------------------------------
(* SpecStore: process_records calls on one ContactProcessor *)

MaxRecords == 3

Rec(pairs) == [ f \in FieldNames |-> IF f \in DOMAIN pairs THEN pairs[f] ELSE << >> ]

\* canonical records: two of one e-mail address written in different case
\* and differing elsewhere, one of another address, one that has only a
\* name, one that has neither e-mail nor name
StoreRecords ==
    { Rec(("EMAIL" :> S_a_b_co) @@ ("CITY" :> <<"x">>)),
      Rec(("EMAIL" :> S_A_B_co) @@ ("CITY" :> <<"x", "y">>) @@ ("INTERESTS" :> <<"b", ",", "a">>)),
      Rec(("EMAIL" :> S_c_b_co)),
      Rec(("FULLNAME" :> <<"A", "l">>) @@ ("WEBSITE" :> <<"W", ".", "c", "o">>)),
      Rec(("CITY" :> <<"x">>)) }

SourceFiles == { "a.csv", "b.csv" }

\* the lists of records passed in one call: one record, or two
Batches ==
    { << r >> : r \in StoreRecords } \cup { << r1, r2 >> : r1, r2 \in StoreRecords }

InitStore == MergeIdle /\ StoreIdle /\ ParseIdle /\ NamesIdle /\ RefsIdle /\ MainIdle /\ ValIdle

\* process_records(records, source_file), lines 129-168
ProcessRecords ==
    \E records \in Batches : \E source_file \in SourceFiles :
        /\ Cardinality(DOMAIN contacts_db) + Len(records) <= MaxRecords
        /\ LET done == ProcessLoop(records, 1,
                           [ db |-> contacts_db, e2k |-> email_to_key,
                             uuids |-> uuids, keys |-> << >> ])
           IN  /\ contacts_db' = done.db
               /\ email_to_key' = done.e2k
               /\ uuids' = done.uuids
               /\ processed_files' = processed_files \cup { source_file }
               /\ batch' = records
               /\ keys' = done.keys
               /\ prev_db' = contacts_db
               /\ UNCHANGED <<mergeVars, parseVars, nameVars, refVars, mainVars, valVars>>

NextStore == ProcessRecords

SpecStore == InitStore /\ [][NextStore]_vars

-----------------------------------------------------------------------------
(* SpecRefs: process_records calls, the records being dict objects *)

MaxObjects == 6

InitRefs == MergeIdle /\ StoreIdle /\ ParseIdle /\ NamesIdle /\ RefsIdle /\ MainIdle /\ ValIdle

\* the dicts a store refers to, as values
Deref(objs, db) == [ key \in DOMAIN db |-> objs[db[key]] ]

\* process_records(records, source_file), lines 129-168; the caller's list
\* holds dicts of its own, as the list parse_file returns does
ProcessRecordObjects ==
    \E records \in Batches : \E source_file \in SourceFiles :
        /\ Len(objects) + 2 * Len(records) <= MaxObjects
        /\ \E ids \in { [ k \in 1..Len(records) |-> Len(objects) + k ] } :
           \E done \in { ProcessObjects(ids, 1,
                              [ objects |-> objects \o records, db |-> db_ref,
                                e2k |-> email_to_key, uuids |-> uuids,
                                keys |-> << >>, merges |-> << >> ]) } :
               /\ objects' = done.objects
               /\ db_ref' = done.db
               /\ call' = [ records |-> ids, keys |-> done.keys, merges |-> done.merges,
                            objects_before |-> objects \o records, db_before |-> db_ref ]
               /\ contacts_db' = Deref(done.objects, done.db)
               /\ email_to_key' = done.e2k
               /\ uuids' = done.uuids
               /\ processed_files' = processed_files \cup { source_file }
               /\ batch' = records
               /\ keys' = done.keys
               /\ prev_db' = contacts_db
               /\ UNCHANGED <<mergeVars, parseVars, nameVars, mainVars, valVars>>

NextRefs == ProcessRecordObjects

SpecRefs == InitRefs /\ [][NextRefs]_vars

-----------------------------------------------------------------------------
(* SpecParse: one parse_file call *)

MaxRows == 2

\* files as read_file returns them: stripped, distinct column names and rows
\* that are not blank throughout.  The sheets: a contact list with a company
\* column, one with separate name columns, one without an e-mail column, one
\* whose "Name" header binds every name field and COMPANYNAME, and a text
\* file of addresses.  NaN is an empty cell.
Sheets ==
    { [ columns |-> << <<"E", "m", "a", "i", "l">>, <<"F", "u", "l", "l", " ", "N", "a", "m", "e">>, <<"C", "o", "m", "p", "a", "n", "y">> >>,
        pool |->
          { << <<"a", "@", "b", ".", "c", "o">>, <<"A", "l", " ", "B", "o">>, NaN >>,
            << <<" ", "A", "@", "b", ".", "c", "o", " ">>, <<" ", "A", "l", " ", " ", "B", "o", " ", "C", "y", " ">>, <<"X">> >>,
            << <<"a", "@", "b", ".", "c", "o">>, <<"A", "l", " ", "B", "o", " ", "C", "y", " ", "D", "i">>, <<"A", "l", " ", "B", "o", " ", "C", "y", " ", "D", "i">> >>,
            << <<"a", "@", "b", ".", "c">>, <<"A", "l">>, NaN >>,
            << NaN, <<"A", "l", " ", "B", "o">>, <<"X">> >>,
            << <<"#", "R", "E", "F", "!">>, <<"A", "l">>, NaN >>,
            << <<"a", "@", "b", ".", "c", "o">>, <<"A", "l", "#", "R", "E", "F", "!">>, NaN >>,
            << <<"c", "@", "b", ".", "c", "o">>, <<"A", "C", "M", "E">>, NaN >>,
            << <<"c", "@", "b", ".", "c", "o">>, <<"A", "U+FFFC">>, <<"X">> >>,
            << <<"a", "@", "b", ".", "c", "o">>, <<"S", "a", "m">>, NaN >>,
            << <<"a", "@", "b", ".", "c", "o">>, <<"A", "l", " ", "A", "l">>, NaN >>,
            << <<"c", "@", "b", ".", "c", "o">>, <<"A", "l">>, <<"A", "l">> >> } ],
      [ columns |-> << <<"E", "m", "a", "i", "l">>, <<"F", "i", "r", "s", "t">>, <<"L", "a", "s", "t">> >>,
        pool |->
          { << <<"a", "@", "b", ".", "c", "o">>, <<"A", "l", " ", "B", "o">>, <<"A", "l", " ", "B", "o">> >>,
            << <<"a", "@", "b", ".", "c", "o">>, <<"A", "l">>, <<"B", "o">> >>,
            << <<"a", "@", "b", ".", "c", "o">>, NaN, <<" ", "B", "o", " ">> >>,
            << <<"a", "b", ".", "c", "o">>, <<"A", "l">>, <<"B", "o">> >>,
            << <<"c", "@", "b", ".", "c", "o">>, <<"A", "l">>, <<"A", "l">> >>,
            << <<"c", "@", "b", ".", "c", "o">>, <<"B", "o", " ", "L", "t", "d">>, NaN >>,
            << <<" ", " ">>, <<"A", "l">>, <<"B", "o">> >>,
            << <<"a", "@", "b", ".", "c", "o">>, NaN, NaN >>,
            << <<"c", "@", "b", ".", "c", "o">>, <<"A", "l", " ", "B", "o">>, NaN >>,
            << <<"c", "@", "b", ".", "c", "o">>, <<"D", "R", " ", "A", "L">>, <<"B", "o", " ", "C", "y">> >> } ],
      [ columns |-> << <<"N", "a", "m", "e">>, <<"C", "o", "m", "p", "a", "n", "y">> >>,
        pool |->
          { << <<"A", "l", " ", "B", "o">>, <<"X">> >>,
            << <<"a", "@", "b", ".", "c", "o">>, NaN >>,
            << NaN, <<"X">> >> } ],
      [ columns |-> << <<"E", "-", "m", "a", "i", "l">>, <<"N", "a", "m", "e">> >>,
        pool |->
          { << <<"a", "@", "b", ".", "c", "o">>, <<"A", "l", " ", "B", "o">> >>,
            << <<"c", "@", "b", ".", "c", "o">>, NaN >>,
            << <<"a", "@", "b", ".", "c">>, <<"A", "l">> >>,
            << NaN, <<"A", "l">> >> } ],
      [ columns |-> << <<"E", "m", "a", "i", "l">>, <<"N", "a", "m", "e">>, <<"F", "i", "r", "s", "t", " ", "N", "a", "m", "e">> >>,
        pool |->
          { << <<"a", "@", "b", ".", "c", "o">>, <<"A", "l", " ", "B", "o">>, <<"C", "y">> >>,
            << <<"a", "@", "b", ".", "c", "o">>, <<" ">>, <<"A", "l">> >>,
            << <<"c", "@", "b", ".", "c", "o">>, <<"A", "l", "#", "R", "E", "F", "!">>, <<"A", "l", " ", "B", "o">> >>,
            << <<"c", "@", "b", ".", "c", "o">>, NaN, <<"A", "l">> >>,
            << <<"a", "@", "b", ".", "c">>, <<"A", "l">>, <<"B", "o">> >> } ],
      [ columns |-> << <<"E", "m", "a", "i", "l">>, <<"F", "u", "l", "l", " ", "N", "a", "m", "e">>, <<"F", "i", "r", "s", "t">>, <<"L", "a", "s", "t">> >>,
        pool |->
          { << <<"a", "@", "b", ".", "c", "o">>, <<"A", "l", " ", "B", "o">>, <<"C", "y">>, NaN >>,
            << <<"a", "@", "b", ".", "c", "o">>, <<"A", "l", " ", "B", "o", " ", "C", "y", " ", "D", "i">>, NaN, <<"E", "d">> >>,
            << <<"c", "@", "b", ".", "c", "o">>, <<"A", "l">>, <<"B", "o">>, NaN >>,
            << <<"c", "@", "b", ".", "c", "o">>, <<"A", "l", " ", "B", "o">>, NaN, NaN >>,
            << <<"c", "@", "b", ".", "c", "o">>, <<"A", "l", " ", "B", "o">>, <<"C", "y">>, <<"D", "i">> >>,
            << <<"a", "@", "b", ".", "c">>, <<"A", "l", " ", "B", "o">>, <<"C", "y">>, NaN >> } ],
      [ columns |-> << <<"E", "M", "A", "I", "L">> >>,
        pool |->
          { << <<"a", "@", "b", ".", "c", "o">> >>,
            << <<"A", "@", "b", ".", "c", "o">> >>,
            << <<"a", "b", ".", "c", "o">> >>,
            << <<"a", "@", "b", ".", "c">> >>,
            << <<"c", "@", "b", ".", "c", "o">> >>,
            << <<"#", "R", "E", "F", "!">> >> } ] }

\* the lists of at most n rows of a pool
RowLists(pool, n) == UNION { [ 1..k -> pool ] : k \in 0..n }

InitParse == MergeIdle /\ StoreIdle /\ ParseIdle /\ NamesIdle /\ RefsIdle /\ MainIdle /\ ValIdle

\* parse_file(file_path), lines 339-454, on the DataFrame read_file returns
ParseFile ==
    /\ df = NoFrame
    /\ \E sheet \in Sheets : \E mapping \in { MapFields(sheet.columns) } :
       \E rows \in RowLists(sheet.pool, MaxRows) :
       \E parsed \in { IF rows = << >> THEN NothingParsed
                       ELSE ParseMapped(mapping, sheet.columns, rows) } :
            /\ df' = [ columns |-> sheet.columns, rows |-> rows ]
            /\ field_mapping' = IF rows = << >> THEN NoMapping ELSE mapping
            /\ parsed_records' = parsed.records
            /\ emitted' = parsed.emitted
            /\ skipped_invalid_email' = parsed.skipped_invalid_email
            /\ skipped_garbage' = parsed.skipped_garbage
            /\ UNCHANGED <<mergeVars, storeVars, nameVars, refVars, mainVars, valVars>>

NextParse == ParseFile

SpecParse == InitParse /\ [][NextParse]_vars

-----------------------------------------------------------------------------
(* SpecMap: one map_fields call on the columns of a DataFrame *)

MaxColumns == 2

\* column names as read_file leaves them (stripped): Email, Work Email, Mail,
\* Name, Full Name, First Name, Surname, Company, Company Name, Phone
Headers ==
    { <<"E", "m", "a", "i", "l">>,
      <<"W", "o", "r", "k", " ", "E", "m", "a", "i", "l">>,
      <<"M", "a", "i", "l">>,
      <<"N", "a", "m", "e">>,
      <<"F", "u", "l", "l", " ", "N", "a", "m", "e">>,
      <<"F", "i", "r", "s", "t", " ", "N", "a", "m", "e">>,
      <<"S", "u", "r", "n", "a", "m", "e">>,
      <<"C", "o", "m", "p", "a", "n", "y">>,
      <<"C", "o", "m", "p", "a", "n", "y", " ", "N", "a", "m", "e">>,
      <<"P", "h", "o", "n", "e">> }

\* the lists of 1 to n distinct column names
ColumnLists(n) ==
    UNION { { columns \in [ 1..k -> Headers ] :
                \A i, j \in 1..k : i # j => columns[i] # columns[j] } : k \in 1..n }

InitMap == MergeIdle /\ StoreIdle /\ ParseIdle /\ NamesIdle /\ RefsIdle /\ MainIdle /\ ValIdle

\* field_mapping = self.map_fields(df), line 359
MapColumns ==
    /\ df = NoFrame
    /\ \E columns \in ColumnLists(MaxColumns) :
        /\ df' = [ columns |-> columns, rows |-> << >> ]
        /\ field_mapping' = MapFields(columns)
        /\ UNCHANGED <<parsed_records, emitted, skipped_invalid_email, skipped_garbage>>
        /\ UNCHANGED <<mergeVars, storeVars, nameVars, refVars, mainVars, valVars>>

NextMap == MapColumns

SpecMap == InitMap /\ [][NextMap]_vars

-----------------------------------------------------------------------------
(* SpecNames: extract_name_parts applied to one name *)

MaxNameLen == 9

NameChars == { "a", "b", " " }

\* the names given to extract_name_parts: every text of up to MaxNameLen
\* letters and blanks, and an empty cell
NameInputs == UNION { [ 1..n -> NameChars ] : n \in 0..MaxNameLen } \cup { NaN }

InitNames ==
    /\ MergeIdle /\ StoreIdle /\ ParseIdle /\ RefsIdle /\ MainIdle /\ ValIdle
    /\ name_input \in NameInputs
    /\ name_parts = NotCalled

ExtractName ==
    /\ name_parts = NotCalled
    /\ name_parts' = ExtractNameParts(name_input)
    /\ UNCHANGED <<name_input, mergeVars, storeVars, parseVars, refVars, mainVars, valVars>>

NextNames == ExtractName

SpecNames == InitNames /\ [][NextNames]_vars

-----------------------------------------------------------------------------
(* SpecMain: main() on an ingest directory, from an empty store *)

MaxEvents == 2
MaxFileRows == 2

\* what a file may hold when it is read: up to MaxFileRows rows of a sheet
\* of addresses and names, two of the addresses differing in case only, one
\* row without address
IngestSheet ==
    [ columns |-> << <<"E", "m", "a", "i", "l">>, <<"F", "u", "l", "l", " ", "N", "a", "m", "e">> >>,
      pool |->
        { << S_a_b_co, <<"A", "l">> >>,
          << S_A_B_co, <<"A", "l", " ", "B", "o">> >>,
          << S_c_b_co, NaN >>,
          << NaN, <<"C", "y">> >> } ]

FileFrames ==
    { [ columns |-> IngestSheet.columns, rows |-> rows ] :
        rows \in RowLists(IngestSheet.pool, MaxFileRows) }

\* the lists of records parse_file returns for these files
ParsedFiles == { ParseFrame(frame) : frame \in FileFrames }

\* the names processed_files.txt may list when the processor is constructed
\* on an output directory without a readable contacts file (lines 29-31, 34-52)
LoggedFiles == { {}, { <<"b", ".", "t", "x", "t">> } }

InitMain ==
    /\ MergeIdle /\ ParseIdle /\ NamesIdle /\ RefsIdle /\ ValIdle
    /\ contacts_db = EmptyDb
    /\ email_to_key = EmptyDb
    /\ processed_files \in LoggedFiles
    /\ uuids = 0
    /\ batch = << >>
    /\ keys = << >>
    /\ prev_db = EmptyDb
    /\ ingest \in SUBSET FileNames
    /\ main_at = 1
    /\ main_pc = "call"
    /\ files_to_process = << >>
    /\ observer_pc = "off"
    /\ event_queue = << >>
    /\ processing = {}
    /\ work = [ t \in Threads |-> NoWork ]
    /\ parses = NoneCounted
    /\ folds = NoneCounted
    /\ handled = NoneCounted
    /\ seen = {}
    /\ events = 0

idleStoreVars == <<batch, keys, prev_db>>
otherVars == <<mergeVars, parseVars, nameVars, refVars, idleStoreVars, valVars>>

\* a file is created or modified in the ingest directory; a running
\* observer queues the event
FileArrives ==
    /\ events < MaxEvents
    /\ \E name \in FileNames :
        /\ ingest' = ingest \cup { name }
        /\ event_queue' = IF observer_pc # "off" THEN Append(event_queue, name) ELSE event_queue
    /\ events' = events + 1
    /\ UNCHANGED <<main_at, main_pc, files_to_process, observer_pc, processing, work,
                   parses, folds, handled, seen>>
    /\ UNCHANGED <<contacts_db, email_to_key, processed_files, uuids, otherVars>>

\* process_existing_files, lines 95-106
ScanExisting ==
    /\ AtStatement("process_existing_files")
    /\ main_pc = "call"
    /\ \E todo \in { Sorted({ name \in ingest : Globbed(name) /\ ~ AlreadyProcessed(name) }) } :
        IF todo = << >>
        THEN /\ main_at' = main_at + 1
             /\ UNCHANGED <<main_pc, files_to_process>>
        ELSE /\ main_pc' = "loop"
             /\ files_to_process' = todo
             /\ UNCHANGED main_at
    /\ UNCHANGED <<ingest, observer_pc, event_queue, processing, work,
                   parses, folds, handled, seen, events>>
    /\ UNCHANGED <<contacts_db, email_to_key, processed_files, uuids, otherVars>>

\* process_existing_files, lines 108-115, up to the call of process_records
ExistingParse ==
    /\ main_pc = "loop"
    /\ files_to_process # << >>
    /\ ~ work["main"].active
    /\ \E file \in { Head(files_to_process) } : \E records \in ParsedFiles :
        /\ files_to_process' = Tail(files_to_process)
        /\ parses' = [ parses EXCEPT ![file] = @ + 1 ]
        /\ IF records # << >>
           THEN /\ work' = [ work EXCEPT !["main"] =
                                 [ NoWork EXCEPT !.active = TRUE, !.file = file, !.records = records ] ]
                /\ folds' = [ folds EXCEPT ![file] = @ + 1 ]
           ELSE UNCHANGED <<work, folds>>
    /\ UNCHANGED <<ingest, main_at, main_pc, observer_pc, event_queue, processing,
                   handled, seen, events>>
    /\ UNCHANGED <<contacts_db, email_to_key, processed_files, uuids, otherVars>>

\* process_records, lines 143-146: the key of the next record is generated
\* and looked up in contacts_db
ReadEntry(t) ==
    /\ work[t].active
    /\ work[t].records # << >>
    /\ ~ work[t].reading
    /\ \E dedup_key \in { GenerateDedupKey(Head(work[t].records), uuids) } :
        /\ work' = [ work EXCEPT ![t].reading = TRUE,
                                 ![t].key = dedup_key,
                                 ![t].found = dedup_key \in DOMAIN contacts_db,
                                 ![t].entry = IF dedup_key \in DOMAIN contacts_db
                                              THEN contacts_db[dedup_key]
                                              ELSE get_output_template ]
        /\ uuids' = IF IsUniqueKey(dedup_key) THEN uuids + 1 ELSE uuids
    /\ UNCHANGED <<ingest, main_at, main_pc, files_to_process, observer_pc, event_queue,
                   processing, parses, folds, handled, seen, events>>
    /\ UNCHANGED <<contacts_db, email_to_key, processed_files, otherVars>>

\* process_records, lines 147-162: the merged record, or the new one, is
\* stored under the key
WriteEntry(t) ==
    /\ work[t].reading
    /\ \E record \in { Head(work[t].records) } :
       \E email \in { Lower(Strip(Get(record, "EMAIL"))) } :
        /\ IF work[t].found
           THEN /\ contacts_db' = Put(contacts_db, work[t].key,
                                      MergeRecords(work[t].entry, record))
                /\ UNCHANGED email_to_key
           ELSE /\ contacts_db' = Put(contacts_db, work[t].key, record)
                /\ email_to_key' = IF email # << >>
                                   THEN Put(email_to_key, email, work[t].key)
                                   ELSE email_to_key
        /\ seen' = seen \cup { email }
    /\ work' = [ work EXCEPT ![t] =
                     [ NoWork EXCEPT !.active = TRUE, !.file = work[t].file,
                                     !.records = Tail(work[t].records) ] ]
    /\ UNCHANGED <<ingest, main_at, main_pc, files_to_process, observer_pc, event_queue,
                   processing, parses, folds, handled, events>>
    /\ UNCHANGED <<processed_files, uuids, otherVars>>

\* process_records, lines 164-168: the file is marked as processed and the
\* call returns
MarkProcessed(t) ==
    /\ work[t].active
    /\ work[t].records = << >>
    /\ processed_files' = processed_files \cup { work[t].file }
    /\ work' = [ work EXCEPT ![t] = [ NoWork EXCEPT !.file = IF t = "observer" THEN work[t].file ELSE << >> ] ]
    /\ observer_pc' = IF t = "observer" THEN "saving" ELSE observer_pc
    /\ UNCHANGED <<ingest, main_at, main_pc, files_to_process, event_queue,
                   processing, parses, folds, handled, seen, events>>
    /\ UNCHANGED <<contacts_db, email_to_key, uuids, otherVars>>

\* process_existing_files, line 121, after the loop: save_output, return
ExistingSave ==
    /\ main_pc = "loop"
    /\ files_to_process = << >>
    /\ ~ work["main"].active
    /\ main_pc' = "call"
    /\ main_at' = main_at + 1
    /\ UNCHANGED <<ingest, files_to_process, observer_pc, event_queue, processing, work,
                   parses, folds, handled, seen, events>>
    /\ UNCHANGED <<contacts_db, email_to_key, processed_files, uuids, otherVars>>

\* main(), lines 163-166: the handler is constructed and the observer started
StartObserver ==
    /\ AtStatement("observer.start")
    /\ observer_pc = "off"
    /\ observer_pc' = "idle"
    /\ processing' = {}
    /\ main_at' = main_at + 1
    /\ UNCHANGED <<ingest, main_pc, files_to_process, event_queue, work,
                   parses, folds, handled, seen, events>>
    /\ UNCHANGED <<contacts_db, email_to_key, processed_files, uuids, otherVars>>

\* on_created or on_modified, then process_file, lines 50-62: the next
\* event is taken; the handler returns at once for a file it has no reader
\* for, that is being processed, or that was processed
HandleEvent ==
    /\ observer_pc = "idle"
    /\ event_queue # << >>
    /\ \E name \in { Head(event_queue) } :
        /\ event_queue' = Tail(event_queue)
        /\ handled' = [ handled EXCEPT ![name] = @ + 1 ]
        /\ IF ~ Eligible(name) \/ name \in processing \/ AlreadyProcessed(name)
           THEN UNCHANGED <<observer_pc, processing, work>>
           ELSE /\ processing' = processing \cup { name }
                /\ observer_pc' = "sleeping"
                /\ work' = [ work EXCEPT !["observer"].file = name ]
    /\ UNCHANGED <<ingest, main_at, main_pc, files_to_process, parses, folds, seen, events>>
    /\ UNCHANGED <<contacts_db, email_to_key, processed_files, uuids, otherVars>>

\* a handler that calls process_records whatever parse_file returned
HandlerParseAlwaysFolding ==
    /\ observer_pc = "sleeping"
    /\ \E file \in { work["observer"].file } : \E records \in ParsedFiles :
        /\ parses' = [ parses EXCEPT ![file] = @ + 1 ]
        /\ work' = [ work EXCEPT !["observer"] =
                         [ NoWork EXCEPT !.active = TRUE, !.file = file, !.records = records ] ]
        /\ folds' = IF records # << >> THEN [ folds EXCEPT ![file] = @ + 1 ] ELSE folds
        /\ observer_pc' = "merging"
        /\ UNCHANGED processing
    /\ UNCHANGED <<ingest, main_at, main_pc, files_to_process, event_queue,
                   handled, seen, events>>
    /\ UNCHANGED <<contacts_db, email_to_key, processed_files, uuids, otherVars>>

\* process_file, lines 65-72 up to the call of process_records; without
\* records, line 81 and return
HandlerParse ==
    /\ observer_pc = "sleeping"
    /\ \E file \in { work["observer"].file } : \E records \in ParsedFiles :
        /\ parses' = [ parses EXCEPT ![file] = @ + 1 ]
        /\ IF records # << >>
           THEN /\ work' = [ work EXCEPT !["observer"] =
                                 [ NoWork EXCEPT !.active = TRUE, !.file = file, !.records = records ] ]
                /\ folds' = [ folds EXCEPT ![file] = @ + 1 ]
                /\ observer_pc' = "merging"
                /\ UNCHANGED processing
           ELSE /\ work' = [ work EXCEPT !["observer"] = NoWork ]
                /\ processing' = processing \ { file }
                /\ observer_pc' = "idle"
                /\ UNCHANGED folds
    /\ UNCHANGED <<ingest, main_at, main_pc, files_to_process, event_queue,
                   handled, seen, events>>
    /\ UNCHANGED <<contacts_db, email_to_key, processed_files, uuids, otherVars>>

\* process_file, lines 75-81: save_output, processing.discard, return
HandlerReturn ==
    /\ observer_pc = "saving"
    /\ processing' = processing \ { work["observer"].file }
    /\ work' = [ work EXCEPT !["observer"] = NoWork ]
    /\ observer_pc' = "idle"
    /\ UNCHANGED <<ingest, main_at, main_pc, files_to_process, event_queue,
                   parses, folds, handled, seen, events>>
    /\ UNCHANGED <<contacts_db, email_to_key, processed_files, uuids, otherVars>>

NextMain ==
    \/ FileArrives
    \/ ScanExisting
    \/ ExistingParse
    \/ \E t \in Threads : ReadEntry(t)
    \/ \E t \in Threads : WriteEntry(t)
    \/ \E t \in Threads : MarkProcessed(t)
    \/ ExistingSave
    \/ StartObserver
    \/ HandleEvent
    \/ HandlerParse
    \/ HandlerReturn

SpecMain == InitMain /\ [][NextMain]_vars

-----------------------------------------------------------------------------
(* SpecValidate: one process_contacts_file call of either validator *)

MaxContacts == 2
MaxHosts == 2

S_x == << "x" >>
S_y == << "y" >>
S_blank == << " " >>
S_padded == << " ", "a", "@", "b", ".", "c", "o", " " >>

\* the header lines of the input files
CsvHeaders == { << "EMAIL", "CITY" >>, << "CITY", "EMAIL" >>, << "CITY" >> }

\* the lines of the input files, as their cells
CsvRows ==
    { << S_a_b_co, S_x >>, << S_x, S_c_b_co >>, << S_padded, S_x >>,
      << S_blank, S_x >>, << S_a_b_co >>,
      << S_c_b_co, S_x, S_y >> }

RECURSIVE RowsUpTo(_)
RowsUpTo(n) ==
    IF n = 0 THEN { << >> }
    ELSE RowsUpTo(n - 1) \cup
         { Append(rows, row) : rows \in { r \in RowsUpTo(n - 1) : Len(r) = n - 1 },
                               row \in CsvRows }

\* the input files: none, an empty one, and a header with up to
\* MaxContacts lines
CsvFiles ==
    { Absent, [ exists |-> TRUE, header |-> None, rows |-> << >>, eol |-> "LF" ] } \cup
    { [ exists |-> TRUE, header |-> header, rows |-> rows, eol |-> eol ] :
        header \in CsvHeaders, rows \in RowsUpTo(MaxContacts), eol \in { "LF", "CRLF" } }

\* what one MX host does: it raises, or answers HELO, MAIL FROM and RCPT TO
RcptCodes == { 250, 251, 252, 450, 451, 500, 550, 553 }
HostOutcomes ==
    { [ raises |-> TRUE, helo |-> 0, mail |-> 0, rcpt |-> 0 ],
      [ raises |-> FALSE, helo |-> 500, mail |-> 0, rcpt |-> 0 ],
      [ raises |-> FALSE, helo |-> 250, mail |-> 550, rcpt |-> 0 ] } \cup
    { [ raises |-> FALSE, helo |-> 250, mail |-> 250, rcpt |-> code ] : code \in RcptCodes }

RECURSIVE HostsUpTo(_)
HostsUpTo(n) ==
    IF n = 0 THEN { << >> }
    ELSE HostsUpTo(n - 1) \cup
         { Append(hosts, host) : hosts \in { h \in HostsUpTo(n - 1) : Len(h) = n - 1 },
                                 host \in HostOutcomes }

\* the MX hosts of a domain, in preference order
HostLists == HostsUpTo(MaxHosts)

\* the addresses the loop validates: the cells of the input files, stripped
Addresses ==
    UNION { { Strip(row[k]) : k \in 1..Len(row) } : row \in CsvRows } \ { << >> }

\* is_valid, as the network can make it for an address
DnsVerdicts ==
    [ email \in Addresses |->
        { ValidateEmailDns(email, has_a, has_mx).is_valid :
            has_a \in BOOLEAN, has_mx \in BOOLEAN } ]
SmtpVerdicts ==
    [ email \in Addresses, use_fallback \in BOOLEAN |->
        { ValidateEmailSmtp(email, mx_hosts, use_fallback).is_valid :
            mx_hosts \in HostLists } ]

InitValidate ==
    /\ MergeIdle /\ StoreIdle /\ ParseIdle /\ NamesIdle /\ RefsIdle /\ MainIdle
    /\ \E file \in CsvFiles :
         /\ fs = [ path \in Paths |-> IF path = "input" THEN file ELSE Absent ]
         /\ original = file
    /\ \E validator \in { "dns", "smtp" }, output \in { "input", "output" },
          create_backup \in BOOLEAN, use_fallback \in BOOLEAN :
         /\ validator = "dns" => use_fallback
         /\ val_args = [ validator |-> validator, output |-> output,
                         create_backup |-> create_backup, use_fallback |-> use_fallback ]
    /\ val_pc = "call"
    /\ fieldnames = None
    /\ contacts = << >>
    /\ verdicts = << >>
    /\ valid_contacts = << >>
    /\ io_log = << >>

nonValVars == <<mergeVars, storeVars, parseVars, nameVars, refVars, mainVars>>

\* lines 99-112 (dns), 163-177 (smtp): a missing input file ends the call
Begin ==
    /\ val_pc = "call"
    /\ val_pc' = IF ~ fs["input"].exists THEN "returned"
                 ELSE IF val_args.create_backup THEN "backup" ELSE "read"
    /\ UNCHANGED <<fs, val_args, original, fieldnames, contacts, verdicts,
                   valid_contacts, io_log, nonValVars>>

\* lines 115-122 (dns), 180-187 (smtp)
CreateBackup ==
    /\ val_pc = "backup"
    /\ fs' = [ fs EXCEPT !["backup"] = CopiedText(fs["input"]) ]
    /\ io_log' = Append(io_log, "backup")
    /\ val_pc' = "read"
    /\ UNCHANGED <<val_args, original, fieldnames, contacts, verdicts,
                   valid_contacts, nonValVars>>

\* lines 127-130 (dns), 192-195 (smtp)
ReadContacts ==
    /\ val_pc = "read"
    /\ fieldnames' = fs["input"].header
    /\ contacts' = DictRows(fs["input"])
    /\ val_pc' = "loop"
    /\ UNCHANGED <<fs, val_args, original, verdicts, valid_contacts, io_log, nonValVars>>

\* one pass of the loop, lines 140-155 (dns), 207-222 (smtp): None has no
\* strip(), and an empty address is invalid without a lookup
ValidateContact ==
    /\ val_pc = "loop"
    /\ Len(verdicts) < Len(contacts)
    /\ \E contact \in { contacts[Len(verdicts) + 1] } :
         IF ContactEmail(contact) = None
         THEN /\ val_pc' = "raised"
              /\ UNCHANGED <<verdicts, valid_contacts>>
         ELSE \E email \in { Strip(ContactEmail(contact)) } :
                \E is_valid \in ( IF email = << >> THEN { FALSE }
                                   ELSE IF val_args.validator = "dns"
                                   THEN DnsVerdicts[email]
                                   ELSE SmtpVerdicts[email, val_args.use_fallback] ) :
                    /\ verdicts' = Append(verdicts, is_valid)
                    /\ valid_contacts' = IF is_valid
                                         THEN Append(valid_contacts, contact)
                                         ELSE valid_contacts
                    /\ UNCHANGED val_pc
    /\ UNCHANGED <<fs, val_args, original, fieldnames, contacts, io_log, nonValVars>>

\* line 160 (dns), 227 (smtp): open(output_path, 'w') empties the file
OpenOutput ==
    /\ val_pc = "loop"
    /\ Len(verdicts) = Len(contacts)
    /\ fs' = [ fs EXCEPT ![val_args.output] =
                 [ exists |-> TRUE, header |-> None, rows |-> << >>, eol |-> "CRLF" ] ]
    /\ io_log' = Append(io_log, "open")
    /\ val_pc' = "header"
    /\ UNCHANGED <<val_args, original, fieldnames, contacts, verdicts,
                   valid_contacts, nonValVars>>

\* lines 161-162 (dns), 228-229 (smtp): writeheader() zips the fieldnames,
\* which raises on None
WriteHeader ==
    /\ val_pc = "header"
    /\ IF fieldnames = None
       THEN /\ val_pc' = "raised"
            /\ UNCHANGED <<fs, io_log>>
       ELSE /\ fs' = [ fs EXCEPT ![val_args.output].header = fieldnames ]
            /\ io_log' = Append(io_log, "header")
            /\ val_pc' = "rows"
    /\ UNCHANGED <<val_args, original, fieldnames, contacts, verdicts,
                   valid_contacts, nonValVars>>

\* line 163 (dns), 230 (smtp): writerows() writes the dicts one by one and
\* raises on a dict with a key that is no field name
WriteRow ==
    /\ val_pc = "rows"
    /\ Len(fs[val_args.output].rows) < Len(valid_contacts)
    /\ \E contact \in { valid_contacts[Len(fs[val_args.output].rows) + 1] } :
         IF contact.extra # << >>
         THEN /\ val_pc' = "raised"
              /\ UNCHANGED <<fs, io_log>>
         ELSE /\ fs' = [ fs EXCEPT ![val_args.output].rows =
                           Append(@, WrittenRow(fieldnames, contact)) ]
              /\ io_log' = Append(io_log, "row")
              /\ UNCHANGED val_pc
    /\ UNCHANGED <<val_args, original, fieldnames, contacts, verdicts,
                   valid_contacts, nonValVars>>

\* the end of the with block, line 163 (dns), 230 (smtp)
CloseOutput ==
    /\ val_pc = "rows"
    /\ Len(fs[val_args.output].rows) = Len(valid_contacts)
    /\ val_pc' = "summary"
    /\ UNCHANGED <<fs, val_args, original, fieldnames, contacts, verdicts,
                   valid_contacts, io_log, nonValVars>>

\* lines 165-183 (dns), 232-256 (smtp): the removal rate divides by
\* len(contacts)
Summary ==
    /\ val_pc = "summary"
    /\ val_pc' = IF Len(contacts) = 0 THEN "raised" ELSE "returned"
    /\ UNCHANGED <<fs, val_args, original, fieldnames, contacts, verdicts,
                   valid_contacts, io_log, nonValVars>>

NextValidate ==
    \/ Begin
    \/ CreateBackup
    \/ ReadContacts
    \/ ValidateContact
    \/ OpenOutput
    \/ WriteHeader
    \/ WriteRow
    \/ CloseOutput
    \/ Summary

SpecValidate == InitValidate /\ [][NextValidate]_vars

-----------------------------------------------------------------------------
(* Claims about _merge_records, checked under SpecMerge *)

OtherFields == FieldNames \ {"INTERESTS"}

\* C1: merging a record into itself returns the record unchanged
\* (idempotence): after a merge whose incoming record equals the existing
\* entry, the merged record equals that entry in every field.
C1_MergeIdempotent ==
    (phase = "merged" /\ new = existing) => merged = existing

\* C2: merging the same incoming record a second time changes nothing:
\* when the last two merges into the entry used the same incoming record,
\* the second result equals the first.
C2_RemergeFixedPoint ==
    repeated => merged = existing

\* every piece of a comma-separated value, trimmed, empty pieces included
AllTokens(val) ==
    LET parts == SplitComma(val)
    IN  { Strip(parts[k]) : k \in 1..Len(parts) }

HasInterest(val) == AllTokens(val) \ { << >> } # {}

\* C3 as stated: no populated field is lost by a merge.
C3_NeverLosesField ==
    phase = "merged" =>
        \A f \in FieldNames :
            /\ (existing[f] # << >> \/ new[f] # << >>) => merged[f] # << >>
            /\ (existing[f] = << >> /\ new[f] # << >>) => merged[f] = new[f]
            /\ (existing[f] = << >> /\ new[f] = << >>) => merged[f] = << >>

SeparatorsOnly(f) ==
    /\ f = "INTERESTS"
    /\ existing[f] # << >> /\ new[f] # << >>
    /\ ~HasInterest(existing[f]) /\ ~HasInterest(new[f])

C3_OneMerge ==
    phase = "merged" =>
        \A f \in FieldNames :
            /\ (existing[f] # << >> \/ new[f] # << >>) =>
                   IF SeparatorsOnly(f) THEN merged[f] = << >> ELSE merged[f] # << >>
            /\ (existing[f] = << >> /\ new[f] # << >>) => merged[f] = new[f]
            /\ (existing[f] = << >> /\ new[f] = << >>) => merged[f] = << >>

C3_FieldStays ==
    \A f \in FieldNames :
        (merged[f] # << >> /\ (f = "INTERESTS" => HasInterest(merged[f])))
            => merged'[f] # << >>

\* C3 (amended): a merge never loses a populated field, except that
\* INTERESTS becomes empty when both values are non-empty and hold nothing
\* but commas and whitespace; an incoming value fills an empty field, two
\* empty values stay empty, and over any sequence of merges into one entry
\* a field once non-empty (INTERESTS: once holding an interest) stays
\* non-empty.
C3_NeverLosesInformation == [](C3_OneMerge) /\ [][C3_FieldStays]_vars

C3_Witness ==
    /\ phase = "merged"
    /\ existing["CITY"] = << >> /\ new["CITY"] = <<"a", "b">> /\ merged["CITY"] = <<"a", "b">>

\* C4: for a field other than INTERESTS populated in both records, the
\* merge keeps the incoming value iff it is strictly longer; on equal
\* lengths, also of different strings, it keeps the existing value.
C4_LongerWins ==
    phase = "merged" =>
        \A f \in OtherFields :
            (existing[f] # << >> /\ new[f] # << >>) =>
                merged[f] = IF Len(new[f]) > Len(existing[f]) THEN new[f] ELSE existing[f]

C4_Witness ==
    /\ phase = "merged"
    /\ existing["POSTCODE"] = <<"a", "b">> /\ new["POSTCODE"] = <<"b", "a">>
    /\ merged["POSTCODE"] = <<"a", "b">>

\* the pieces of s between occurrences of ", "
RECURSIVE SplitCommaSpace(_)
SplitCommaSpace(s) ==
    LET at == { k \in 1..(Len(s) - 1) : s[k] = "," /\ s[k + 1] = " " }
    IN  IF at = {} THEN << s >>
        ELSE LET k == CHOOSE k \in at : \A j \in at : k <= j
             IN  << SubSeq(s, 1, k - 1) >> \o SplitCommaSpace(SubSeq(s, k + 2, Len(s)))

IsSortedList(s, tokens) ==
    LET parts == SplitCommaSpace(s)
    IN  /\ { parts[k] : k \in 1..Len(parts) } = tokens
        /\ Len(parts) = Cardinality(tokens)
        /\ \A k \in 1..(Len(parts) - 1) : StrLess(parts[k], parts[k + 1])

BothInterests == phase = "merged" /\ existing["INTERESTS"] # << >> /\ new["INTERESTS"] # << >>

\* C5 as stated: merged INTERESTS lists the union of the trimmed
\* comma-separated tokens of both values, every token counted.
C5_UnionOfAllTokens ==
    BothInterests =>
        LET tokens == AllTokens(existing["INTERESTS"]) \cup AllTokens(new["INTERESTS"])
        IN  merged["INTERESTS"] = Join(Sorted(tokens), << ",", " " >>)

\* C5 (amended): when INTERESTS is non-empty in both records, merged
\* INTERESTS lists the union of the non-empty trimmed comma-separated
\* tokens of both values, each once, in increasing code-point order,
\* joined with ", " (and is empty when there is no such token).
C5_UnionOfInterests ==
    BothInterests =>
        LET tokens == (AllTokens(existing["INTERESTS"]) \cup AllTokens(new["INTERESTS"]))
                          \ { << >> }
        IN  IF tokens = {} THEN merged["INTERESTS"] = << >>
            ELSE IsSortedList(merged["INTERESTS"], tokens)

C5_Witness ==
    /\ phase = "merged"
    /\ existing["INTERESTS"] = <<"a", "b", ",", "a">>
    /\ new["INTERESTS"] = <<"a", ",", " ", "B">>
    /\ merged["INTERESTS"] = <<"B", ",", " ", "a", ",", " ", "a", "b">>

\* no field other than INTERESTS holds two different non-empty values of equal length
NoLengthTie(a, b) ==
    \A f \in OtherFields :
        ~(a[f] # << >> /\ b[f] # << >> /\ a[f] # b[f] /\ Len(a[f]) = Len(b[f]))

\* C6: outside the length tie-break and INTERESTS the merge is
\* commutative: merge(a, b) and merge(b, a) agree on every field other
\* than INTERESTS when no such field holds two different non-empty values
\* of equal length.
C6_CommutativeOutsideTies ==
    (phase = "merged" /\ NoLengthTie(existing, new)) =>
        \A f \in OtherFields : merged[f] = MergeRecords(new, existing)[f]

C6_Witness ==
    /\ phase = "merged"
    /\ existing["CITY"] = <<"a">> /\ new["CITY"] = <<"b", "a">>
    /\ merged["CITY"] = <<"b", "a">>

-----------------------------------------------------------------------------
(* Claims about _generate_dedup_key and process_records, checked under SpecStore *)

HasEmail(record) == record["EMAIL"] # << >>

\* C7: the dedup key of a record with a non-empty EMAIL is "email:"
\* followed by the lower-cased EMAIL and nothing else: every record of a
\* process_records call got that key, so records whose EMAILs are equal
\* ignoring case got the same key whatever their other fields hold, and a
\* record met twice got the same key twice.
C7_EmailKey ==
    \A j \in 1..Len(batch) :
        HasEmail(batch[j]) =>
            /\ keys[j] = EMAILPREFIX \o Lower(batch[j]["EMAIL"])
            /\ \A k \in 1..Len(batch) :
                   (HasEmail(batch[k]) /\ Lower(batch[k]["EMAIL"]) = Lower(batch[j]["EMAIL"]))
                       => keys[k] = keys[j]
            /\ keys[j] \in DOMAIN contacts_db
            /\ Lower(contacts_db[keys[j]]["EMAIL"]) = Lower(batch[j]["EMAIL"])

C7_Witness ==
    \E j, k \in 1..Len(batch) :
        /\ batch[j]["EMAIL"] = S_a_b_co /\ batch[k]["EMAIL"] = S_A_B_co
        /\ batch[j]["CITY"] # batch[k]["CITY"]
        /\ keys[j] = keys[k]
        /\ keys[j] \in DOMAIN prev_db

\* a record without e-mail and without any name
Anonymous(record) ==
    /\ record["EMAIL"] = << >> /\ record["FULLNAME"] = << >>
    /\ record["FIRSTNAME"] = << >> /\ record["LASTNAME"] = << >>

\* C8: records with empty EMAIL, FULLNAME, FIRSTNAME and LASTNAME never
\* merge: each one passed to process_records gets a unique: key that no
\* earlier entry and no other record of the call has, and is stored under
\* it as it is; entries not keyed by a record of the call are unchanged,
\* and a call of only such records grows the store by their number and
\* changes no earlier entry.
C8_AnonymousNeverMerge ==
    LET anonymous == { j \in 1..Len(batch) : Anonymous(batch[j]) }
    IN  /\ \A j \in anonymous :
               /\ IsUniqueKey(keys[j])
               /\ keys[j] \notin DOMAIN prev_db
               /\ \A k \in 1..Len(batch) : k # j => keys[k] # keys[j]
               /\ keys[j] \in DOMAIN contacts_db
               /\ contacts_db[keys[j]] = batch[j]
        /\ \A key \in DOMAIN prev_db :
               (\A j \in 1..Len(batch) : Anonymous(batch[j]) \/ keys[j] # key)
                   => (key \in DOMAIN contacts_db /\ contacts_db[key] = prev_db[key])
        /\ Cardinality(DOMAIN contacts_db) >= Cardinality(DOMAIN prev_db) + Cardinality(anonymous)
        /\ anonymous = 1..Len(batch) =>
               Cardinality(DOMAIN contacts_db) = Cardinality(DOMAIN prev_db) + Len(batch)

C8_Witness ==
    /\ Len(batch) = 2 /\ batch[1] = batch[2] /\ Anonymous(batch[1])
    /\ \E key \in DOMAIN prev_db : prev_db[key] = batch[1]
    /\ Cardinality(DOMAIN contacts_db) = Cardinality(DOMAIN prev_db) + 2


-----------------------------------------------------------------------------
(* Claims about dict objects, checked under SpecRefs *)

\* the keys generated in the last call
CallKeys == { call.keys[j] : j \in 1..Len(call.keys) }

\* C18: _merge_records does not modify its arguments: when it returns,
\* `existing` and `new` hold the field values they held when it was called
\* and the dict returned is neither of them; every dict alive when
\* process_records was called holds the same values when it returns; and
\* process_records changes the store only under the keys of its records:
\* every other key refers to the same dict, with the same values
C18_ArgumentsUntouched ==
    /\ \A j \in 1..Len(call.merges) : \E m \in { call.merges[j] } :
        /\ m.existing_after = m.existing_before
        /\ m.new_after = m.new_before
        /\ m.merged # m.existing /\ m.merged # m.new
    /\ \A id \in 1..Len(call.objects_before) : objects[id] = call.objects_before[id]
    /\ \A key \in DOMAIN call.db_before :
        key \notin CallKeys
        => /\ key \in DOMAIN db_ref
           /\ db_ref[key] = call.db_before[key]
           /\ contacts_db[key] = prev_db[key]
    /\ DOMAIN db_ref = DOMAIN call.db_before \cup CallKeys

\* a call that merged a record into an entry, the merged dict holding other
\* values than the entry did, while the store held an entry under a key of
\* no record of the call
C18_Witness ==
    /\ \E j \in 1..Len(call.merges) : \E m \in { call.merges[j] } :
        /\ objects[m.merged] # m.existing_before
        /\ objects[m.merged] # m.new_before
        /\ m.existing \in 1..Len(call.objects_before)
    /\ \E key \in DOMAIN call.db_before : key \notin CallKeys

-----------------------------------------------------------------------------
(* Claims about parse_file, checked under SpecParse *)

\* the cell of row idx under the column map_fields binds to output_field,
\* NaN when it binds none
MappedCell(idx, output_field) ==
    IF output_field \in DOMAIN field_mapping
    THEN RowGet(df.columns, df.rows[idx], field_mapping[output_field])
    ELSE NaN

\* the mapped EMAIL of row idx is absent, empty after cleaning, or not an address
BadEmailRow(idx) ==
    \/ MappedCell(idx, "EMAIL") = NaN
    \/ CleanValue(MappedCell(idx, "EMAIL")) = << >>
    \/ ~ IsValidEmail(CleanValue(MappedCell(idx, "EMAIL")))

\* C9: every record parse_file returns has a non-empty EMAIL that satisfies
\* is_valid_email, and no row whose mapped EMAIL is absent, empty after
\* cleaning or syntactically invalid is among the rows the records were
\* built from
C9_EmittedEmailValid ==
    /\ Len(emitted) = Len(parsed_records)
    /\ \A i \in 1..Len(parsed_records) :
        /\ parsed_records[i]["EMAIL"] # << >>
        /\ IsValidEmail(parsed_records[i]["EMAIL"])
        /\ emitted[i] \in 1..Len(df.rows)
    /\ \A idx \in 1..Len(df.rows) :
        BadEmailRow(idx) => \A i \in 1..Len(emitted) : emitted[i] # idx

\* a file was parsed in which one row was returned as a record and another,
\* whose EMAIL cell holds text that is not an address, was dropped
C9_Witness ==
    /\ Len(parsed_records) >= 1
    /\ \E idx \in 1..Len(df.rows) :
        /\ MappedCell(idx, "EMAIL") # NaN
        /\ CleanValue(MappedCell(idx, "EMAIL")) # << >>
        /\ ~ IsValidEmail(MappedCell(idx, "EMAIL"))
        /\ \A i \in 1..Len(emitted) : emitted[i] # idx

CanonicalFieldCount == 17

\* C10: every record parse_file returns has exactly the 17 canonical fields,
\* and each of its values, the name fields that name resolution rewrote
\* included, is the empty string or a trimmed string without a garbage marker
C10_EmittedFieldsClean ==
    \A i \in 1..Len(parsed_records) :
        /\ DOMAIN parsed_records[i] = FieldNames
        /\ Cardinality(DOMAIN parsed_records[i]) = CanonicalFieldCount
        /\ \A f \in FieldNames :
            \/ parsed_records[i][f] = << >>
            \/ /\ parsed_records[i][f] # NaN
               /\ Strip(parsed_records[i][f]) = parsed_records[i][f]
               /\ ~ ContainsGarbage(parsed_records[i][f])

\* a record was returned from a row with a padded cell and a name that name
\* resolution split, and one from a row with a cell holding a garbage marker
C10_Witness ==
    /\ \E i \in 1..Len(parsed_records) :
        LET row == df.rows[emitted[i]]
        IN  /\ \E k \in 1..Len(row) : row[k] # NaN /\ Strip(row[k]) # row[k]
            /\ MappedCell(emitted[i], "FIRSTNAME") = NaN
            /\ parsed_records[i]["FIRSTNAME"] # << >>
    /\ \E i \in 1..Len(parsed_records) :
        \E k \in 1..Len(df.rows[emitted[i]]) : ContainsGarbage(df.rows[emitted[i]][k])

\* the record of lines 368-375 for the row the i-th returned record was built from
MappedRecord(i) == MapRow(field_mapping, df.columns, df.rows[emitted[i]])

NameFields == { "FIRSTNAME", "LASTNAME", "FULLNAME" }

\* one of the name fields is classified as a company
ClassifiedCompany(mapped) == \E f \in NameFields : IsLikelyCompanyName(mapped[f])

\* the three name fields are non-empty, equal and one word
SameSingleWord(mapped) ==
    /\ \A f \in NameFields : mapped[f] # << >> /\ mapped[f] = mapped["FULLNAME"]
    /\ Len(Words(mapped["FULLNAME"])) = 1

\* one of the name fields equals a non-empty COMPANYNAME
EqualsCompany(mapped) ==
    /\ mapped["COMPANYNAME"] # << >>
    /\ \E f \in NameFields : mapped[f] = mapped["COMPANYNAME"]

\* C11: for an accepted row, if a name field is classified as a company, or
\* the three name fields are non-empty, equal and a single word, or one of
\* them equals a non-empty COMPANYNAME, the returned record has FIRSTNAME,
\* LASTNAME and FULLNAME empty and every other field, COMPANYNAME included,
\* as it was mapped: no later name-resolution rule has acted on it
C11_CompanySuppression ==
    \A i \in 1..Len(parsed_records) : \E mapped \in { MappedRecord(i) } :
        (ClassifiedCompany(mapped) \/ SameSingleWord(mapped) \/ EqualsCompany(mapped))
        => /\ \A f \in NameFields : parsed_records[i][f] = << >>
           /\ \A f \in FieldNames \ NameFields : parsed_records[i][f] = mapped[f]

\* a returned record whose row had a several-word name that no indicator
\* classifies, equal to its COMPANYNAME, and one whose row had one word in
\* the three name fields
C11_Witness ==
    /\ \E i \in 1..Len(parsed_records) : \E mapped \in { MappedRecord(i) } :
        /\ EqualsCompany(mapped) /\ ~ ClassifiedCompany(mapped) /\ ~ SameSingleWord(mapped)
        /\ Len(Words(mapped["FULLNAME"])) > 1
        /\ parsed_records[i]["COMPANYNAME"] = mapped["COMPANYNAME"]
        /\ parsed_records[i]["FULLNAME"] = << >>
    /\ \E i \in 1..Len(parsed_records) : \E mapped \in { MappedRecord(i) } :
        ClassifiedCompany(mapped) /\ parsed_records[i]["FULLNAME"] = << >>

\* the column input_column is bound to COMPANYNAME and to a name field
SharedWithCompany(input_column) ==
    /\ "COMPANYNAME" \in DOMAIN field_mapping
    /\ field_mapping["COMPANYNAME"] = input_column
    /\ \E f \in NameFields : f \in DOMAIN field_mapping /\ field_mapping[f] = input_column

\* the cell of the row of record i under input_column
CellOf(i, input_column) == RowGet(df.columns, df.rows[emitted[i]], input_column)

\* the record i has no name and the cleaned cell as COMPANYNAME
NamesSuppressed(i, cell) ==
    /\ \A f \in NameFields : parsed_records[i][f] = << >>
    /\ parsed_records[i]["COMPANYNAME"] = CleanCell(cell)

\* C13: a column may be bound to several fields; when one column is bound
\* to COMPANYNAME and to FIRSTNAME, LASTNAME or FULLNAME, and its cell is
\* non-empty after cleaning, the returned record has the three name fields
\* empty and the cleaned cell as COMPANYNAME
C13_SharedColumnSuppressed ==
    \A i \in 1..Len(parsed_records) : \A k \in 1..Len(df.columns) :
        \E cell \in { CellOf(i, df.columns[k]) } :
            (SharedWithCompany(df.columns[k]) /\ cell # NaN /\ CleanCell(cell) # << >>)
            => NamesSuppressed(i, cell)

\* C13 as stated: the same for every cell that holds text, cleaned to
\* nothing or not
C13_SharedColumnAnyText ==
    \A i \in 1..Len(parsed_records) : \A k \in 1..Len(df.columns) :
        \E cell \in { CellOf(i, df.columns[k]) } :
            (SharedWithCompany(df.columns[k]) /\ cell # NaN /\ cell # << >>)
            => NamesSuppressed(i, cell)

\* a returned record whose "Name" cell, bound to COMPANYNAME, FULLNAME and
\* LASTNAME, held a two-word name no rule but the comparison with
\* COMPANYNAME suppresses, and whose FIRSTNAME came from another column and
\* was cleared with the others
C13_Witness ==
    \E i \in 1..Len(parsed_records) : \E k \in 1..Len(df.columns) :
        \E mapped \in { MappedRecord(i) } :
            /\ SharedWithCompany(df.columns[k])
            /\ CleanCell(CellOf(i, df.columns[k])) # << >>
            /\ "FIRSTNAME" \in DOMAIN field_mapping
            /\ field_mapping["FIRSTNAME"] # df.columns[k]
            /\ mapped["FIRSTNAME"] # << >>
            /\ ~ ClassifiedCompany(mapped) /\ ~ SameSingleWord(mapped)
            /\ parsed_records[i]["FIRSTNAME"] = << >>
            /\ parsed_records[i]["COMPANYNAME"] = mapped["COMPANYNAME"]

\* row idx fails a rejection rule: garbage left in a cleaned field, or a bad EMAIL
RejectedRow(idx) ==
    \/ HasGarbage(MapRow(field_mapping, df.columns, df.rows[idx]))
    \/ BadEmailRow(idx)

\* what parse_file returns for a file holding row idx alone
AloneRecords(idx) == ParseMapped(field_mapping, df.columns, << df.rows[idx] >>).records

\* C14: a rejected row is dropped and nothing else: the returned records are
\* those of exactly the rows no rejection rule fails, one each, in row
\* order, and each is the record the row gives when parsed alone, whatever
\* became of the other rows
C14_RejectionIsolated ==
    /\ Len(emitted) = Len(parsed_records)
    /\ \A i, j \in 1..Len(emitted) : i < j => emitted[i] < emitted[j]
    /\ \A idx \in 1..Len(df.rows) :
        (\E i \in 1..Len(emitted) : emitted[i] = idx) <=> ~ RejectedRow(idx)
    /\ \A i \in 1..Len(emitted) : AloneRecords(emitted[i]) = << parsed_records[i] >>
    /\ skipped_invalid_email + skipped_garbage + Len(parsed_records) = Len(df.rows)

\* a file whose first row was rejected and whose second row was returned, and
\* a file with the two the other way round
C14_Witness ==
    /\ Len(df.rows) = 2
    /\ Len(parsed_records) = 1
    /\ \/ RejectedRow(1) /\ emitted = << 2 >>
       \/ RejectedRow(2) /\ emitted = << 1 >>
    /\ parsed_records[1]["FULLNAME"] # << >>

\* the mapped row is not suppressed as a company, has a FULLNAME, and has
\* FIRSTNAME without LASTNAME or LASTNAME without FIRSTNAME
OneNameMissing(mapped) ==
    /\ ~ (ClassifiedCompany(mapped) \/ SameSingleWord(mapped) \/ EqualsCompany(mapped))
    /\ mapped["FULLNAME"] # << >>
    /\ (mapped["FIRSTNAME"] = << >>) # (mapped["LASTNAME"] = << >>)

\* C16: for an accepted row that is not suppressed, with a FULLNAME and with
\* exactly one of FIRSTNAME and LASTNAME empty, the returned record has the
\* populated one and FULLNAME as they were mapped, the empty one set to its
\* part of the split FULLNAME, and every other field as mapped
C16_FillOnlyEmptyName ==
    \A i \in 1..Len(parsed_records) : \E mapped \in { MappedRecord(i) } :
        OneNameMissing(mapped)
        => /\ parsed_records[i]["FULLNAME"] = mapped["FULLNAME"]
           /\ mapped["FIRSTNAME"] # << >>
              => /\ parsed_records[i]["FIRSTNAME"] = mapped["FIRSTNAME"]
                 /\ parsed_records[i]["LASTNAME"] = ExtractNameParts(mapped["FULLNAME"])[2]
           /\ mapped["LASTNAME"] # << >>
              => /\ parsed_records[i]["LASTNAME"] = mapped["LASTNAME"]
                 /\ parsed_records[i]["FIRSTNAME"] = ExtractNameParts(mapped["FULLNAME"])[1]
           /\ \A f \in FieldNames \ NameFields : parsed_records[i][f] = mapped[f]

\* a returned record whose FIRSTNAME was mapped, differs from the first part
\* of its FULLNAME and was kept, while its LASTNAME was filled; and one whose
\* LASTNAME was kept while its FIRSTNAME was filled
C16_Witness ==
    /\ \E i \in 1..Len(parsed_records) : \E mapped \in { MappedRecord(i) } :
        /\ OneNameMissing(mapped)
        /\ mapped["FIRSTNAME"] # << >>
        /\ mapped["FIRSTNAME"] # ExtractNameParts(mapped["FULLNAME"])[1]
        /\ parsed_records[i]["FIRSTNAME"] = mapped["FIRSTNAME"]
        /\ parsed_records[i]["LASTNAME"] # << >>
    /\ \E i \in 1..Len(parsed_records) : \E mapped \in { MappedRecord(i) } :
        /\ OneNameMissing(mapped)
        /\ mapped["LASTNAME"] # << >>
        /\ mapped["LASTNAME"] # ExtractNameParts(mapped["FULLNAME"])[2]
        /\ parsed_records[i]["LASTNAME"] = mapped["LASTNAME"]
        /\ parsed_records[i]["FIRSTNAME"] # << >>

\* C22: in every record parse_file returns, FULLNAME is empty if and only if
\* FIRSTNAME and LASTNAME are both empty
C22_FullnameIffNameParts ==
    \A i \in 1..Len(parsed_records) :
        (parsed_records[i]["FULLNAME"] = << >>)
        <=> (parsed_records[i]["FIRSTNAME"] = << >> /\ parsed_records[i]["LASTNAME"] = << >>)

\* two returned records: one mapped with a single name part and no FULLNAME,
\* returned with a FULLNAME; and one without any name
C22_Witness ==
    /\ \E i \in 1..Len(parsed_records) : \E mapped \in { MappedRecord(i) } :
        /\ mapped["FULLNAME"] = << >>
        /\ (mapped["FIRSTNAME"] = << >>) # (mapped["LASTNAME"] = << >>)
        /\ parsed_records[i]["FULLNAME"] # << >>
    /\ \E i \in 1..Len(parsed_records) :
        \A f \in NameFields : parsed_records[i][f] = << >>

\* the rows whose mapped EMAIL is rejected
BadEmailRows == { idx \in 1..Len(df.rows) : BadEmailRow(idx) }

\* the cell of row idx mapped to the field holds a garbage marker
GarbageCell(idx, output_field) == ContainsGarbage(MappedCell(idx, output_field))

\* the fields of row idx, EMAIL apart, whose cell holds a garbage marker
GarbageFields(idx) == { f \in FieldNames \ {"EMAIL"} : GarbageCell(idx, f) }

\* no row is counted as garbage; a row with a garbage marker in its EMAIL
\* cell is not returned, and the rows counted as invalid e-mail are the rows
\* whose mapped EMAIL is rejected
GarbageBranchDead ==
    /\ skipped_garbage = 0
    /\ \A idx \in 1..Len(df.rows) :
        GarbageCell(idx, "EMAIL") => idx \in BadEmailRows
    /\ \A i \in 1..Len(emitted) : emitted[i] \notin BadEmailRows
    /\ skipped_invalid_email = Cardinality(BadEmailRows)
    /\ Len(emitted) = Len(df.rows) - Cardinality(BadEmailRows)

\* C23: the garbage branch of parse_file is never taken: skipped_garbage
\* stays 0; a row with a garbage marker in its EMAIL cell is rejected and
\* counted as invalid e-mail; a row with a garbage marker in another mapped
\* cell and an accepted EMAIL is returned, the field mapped empty, and empty
\* in the returned record unless it is FIRSTNAME, LASTNAME or FULLNAME, which
\* name resolution may fill from the other name fields
C23_GarbageBranchNeverTaken ==
    /\ GarbageBranchDead
    /\ \A i \in 1..Len(parsed_records) : \A f \in GarbageFields(emitted[i]) :
        /\ MappedRecord(i)[f] = << >>
        /\ f \notin NameFields => parsed_records[i][f] = << >>

\* C23 as stated: the field of the garbage cell is empty in the returned record
C23_GarbageFieldEmpty ==
    /\ GarbageBranchDead
    /\ \A i \in 1..Len(parsed_records) : \A f \in GarbageFields(emitted[i]) :
        parsed_records[i][f] = << >>

\* a file with a row whose EMAIL cell holds a garbage marker, counted as
\* invalid e-mail, and a returned row with a garbage marker in another cell
C23_Witness ==
    /\ skipped_garbage = 0
    /\ skipped_invalid_email = 1
    /\ \E idx \in 1..Len(df.rows) : GarbageCell(idx, "EMAIL")
    /\ \E i \in 1..Len(parsed_records) : \E f \in GarbageFields(emitted[i]) :
        parsed_records[i][f] = << >>

-----------------------------------------------------------------------------
(* Claims about extract_name_parts, checked under SpecNames *)

\* C15 helper: the words of the argument
InputWords == IF name_input = NaN THEN << >> ELSE Words(name_input)

\* the parts of the returned pair that are not empty
NonEmptyParts == SelectSeq(name_parts, LAMBDA part : part # << >>)

\* C15: extract_name_parts splits by the number of words: none gives two
\* empty parts, one gives the word and an empty part, two give one word
\* each, three give the first two joined by a space and the third, four or
\* more give all but the last two joined and the last two joined; and the
\* non-empty parts joined by one space are the words of the argument in
\* their order, joined by one space
C15_SplitByWordCount ==
    name_parts # NotCalled =>
        \E w \in { InputWords } : \E n \in { Len(InputWords) } :
            /\ n = 0 => name_parts = << << >>, << >> >>
            /\ n = 1 => name_parts = << w[1], << >> >>
            /\ n = 2 => name_parts = << w[1], w[2] >>
            /\ n = 3 => name_parts = << w[1] \o SPACE \o w[2], w[3] >>
            /\ n >= 4 => name_parts = << Join(SubSeq(w, 1, n - 2), SPACE),
                                         w[n - 1] \o SPACE \o w[n] >>
            /\ Join(NonEmptyParts, SPACE) = Join(w, SPACE)
            /\ Words(Join(NonEmptyParts, SPACE)) = w

\* a name of five words was split into its first three and its last two
C15_Witness ==
    /\ name_parts # NotCalled
    /\ Len(InputWords) = 5
    /\ Len(Words(name_parts[1])) = 3
    /\ Len(Words(name_parts[2])) = 2

-----------------------------------------------------------------------------
(* Claims about map_fields, checked under SpecMap *)

\* the aliases of a canonical field, in declaration order
Aliases(output_field) ==
    FIELD_MAPPINGS[CHOOSE n \in 1..Len(FIELD_MAPPINGS) : FIELD_MAPPINGS[n][1] = output_field][2]

\* the items of input_columns whose key equals the alias
ExactItems(input_columns, alias) ==
    { k \in 1..Len(input_columns) : input_columns[k][1] = Lower(alias) }

\* the items whose key contains the alias or is contained in it
PartialItems(input_columns, alias) ==
    { k \in 1..Len(input_columns) :
        \/ Contains(input_columns[k][1], Lower(alias))
        \/ Contains(Lower(alias), input_columns[k][1]) }

\* the aliases of the field that match some column, exactly or partially
MatchingAliases(input_columns, output_field) ==
    { i \in 1..Len(Aliases(output_field)) :
        PartialItems(input_columns, Aliases(output_field)[i]) # { } }

\* the field is first bound by a partial match: its first matching alias
\* equals no column
BoundByPartial(input_columns, output_field) ==
    /\ MatchingAliases(input_columns, output_field) # { }
    /\ \E i \in MatchingAliases(input_columns, output_field) :
        /\ \A j \in MatchingAliases(input_columns, output_field) : i <= j
        /\ ExactItems(input_columns, Aliases(output_field)[i]) = { }

\* the column that first partial match chooses
FirstPartialColumn(input_columns, output_field) ==
    LET i == CHOOSE i \in MatchingAliases(input_columns, output_field) :
                 \A j \in MatchingAliases(input_columns, output_field) : i <= j
        items == PartialItems(input_columns, Aliases(output_field)[i])
    IN  input_columns[CHOOSE k \in items : \A l \in items : k <= l][2]

\* C12: a canonical field first bound to a column through a partial match is
\* bound to that column in the mapping map_fields returns
C12_PartialBindingKept ==
    \A output_field \in FieldNames : \E input_columns \in { InputColumns(df.columns) } :
        BoundByPartial(input_columns, output_field)
        => /\ output_field \in DOMAIN field_mapping
           /\ field_mapping[output_field] = FirstPartialColumn(input_columns, output_field)

\* the aliases of the field that equal some column
ExactAliases(input_columns, output_field) ==
    { i \in 1..Len(Aliases(output_field)) :
        ExactItems(input_columns, Aliases(output_field)[i]) # { } }

\* the column equal to the first alias of the field that equals a column
FirstExactColumn(input_columns, output_field) ==
    LET i == CHOOSE i \in ExactAliases(input_columns, output_field) :
                 \A j \in ExactAliases(input_columns, output_field) : i <= j
    IN  input_columns[CHOOSE k \in ExactItems(input_columns, Aliases(output_field)[i]) : TRUE][2]

\* C24: when some column equals, case-insensitively, some alias of a
\* canonical field, map_fields binds the field to the column equal to the
\* first such alias in alias order, whatever an earlier alias bound by a
\* substring match; when no alias equals a column and some alias matches
\* one as a substring, the field is bound to the first column, in header
\* order, that the first matching alias matches
C24_ExactBeatsPartial ==
    \A output_field \in FieldNames : \E input_columns \in { InputColumns(df.columns) } :
        IF ExactAliases(input_columns, output_field) # { }
        THEN /\ output_field \in DOMAIN field_mapping
             /\ field_mapping[output_field] = FirstExactColumn(input_columns, output_field)
        ELSE MatchingAliases(input_columns, output_field) # { }
             => /\ output_field \in DOMAIN field_mapping
                /\ field_mapping[output_field] = FirstPartialColumn(input_columns, output_field)

\* a mapping in which one field is bound to the column equal to a later
\* alias while an earlier alias matched another column as a substring, and
\* another field, no alias of which equals a column, is bound by substring
C24_Witness ==
    \E input_columns \in { InputColumns(df.columns) } :
        /\ \E output_field \in DOMAIN field_mapping :
            /\ BoundByPartial(input_columns, output_field)
            /\ ExactAliases(input_columns, output_field) # { }
            /\ field_mapping[output_field] = FirstExactColumn(input_columns, output_field)
            /\ field_mapping[output_field] # FirstPartialColumn(input_columns, output_field)
        /\ \E output_field \in DOMAIN field_mapping :
            /\ ExactAliases(input_columns, output_field) = { }
            /\ field_mapping[output_field] = FirstPartialColumn(input_columns, output_field)

-----------------------------------------------------------------------------
(* Claims about main(), checked under SpecMain *)

\* the key starts with that prefix
HasPrefix(key, prefix) ==
    Len(key) >= Len(prefix) /\ SubSeq(key, 1, Len(prefix)) = prefix

\* C17: from an empty store, fed with the records parse_file returned and
\* no others, every key of the store is "email:" followed by the lower-cased
\* EMAIL of the entry under it; the keys are those of the lower-cased EMAILs
\* written so far, one each; and no key starts with "name:" or "unique:"
C17_EmailKeysOnly ==
    /\ \A key \in DOMAIN contacts_db :
        /\ key = EMAILPREFIX \o Lower(contacts_db[key]["EMAIL"])
        /\ contacts_db[key]["EMAIL"] # << >>
        /\ ~ HasPrefix(key, NAMEPREFIX) /\ ~ HasPrefix(key, UNIQUEPREFIX)
    /\ DOMAIN contacts_db = { EMAILPREFIX \o email : email \in seen }
    /\ Cardinality(DOMAIN contacts_db) = Cardinality(seen)

\* a store of two entries, one of them written by the main thread and
\* merged into by the handler, holding an EMAIL in capitals under the
\* lower-case key
C17_Witness ==
    /\ Cardinality(DOMAIN contacts_db) = 2
    /\ \E key \in DOMAIN contacts_db :
        /\ contacts_db[key]["EMAIL"] = S_A_B_co
        /\ key = EMAILPREFIX \o S_a_b_co
    /\ \E name \in FileNames : folds[name] = 1 /\ handled[name] = 0
    /\ \E name \in FileNames : folds[name] = 1 /\ handled[name] >= 1

\* C19: a file is folded into the store at most once: from the moment its
\* name is in processed_files no step parses it or starts a process_records
\* call for it, the handler returns at once from an event for it and leaves
\* the store as it was, and no file has had two process_records calls
C19_FoldedAtMostOnce ==
    [][ /\ \A name \in FileNames : folds'[name] <= 1
        /\ \A name \in processed_files :
            parses'[name] = parses[name] /\ folds'[name] = folds[name]
        /\ (handled' # handled /\ Head(event_queue) \in processed_files)
           => /\ contacts_db' = contacts_db
              /\ processed_files' = processed_files
              /\ observer_pc' = "idle" ]_vars

\* a processed file was parsed once although two events for it were
\* handled, and a file listed as processed when the program started is in
\* the ingest directory, past the scan, and was never parsed
C19_Witness ==
    /\ \E name \in processed_files :
        handled[name] >= 2 /\ parses[name] = 1 /\ folds[name] = 1
    /\ \E name \in processed_files \cap ingest :
        Globbed(name) /\ parses[name] = 0 /\ main_at > Len(MainProgram)

\* the thread is between reading a store entry and writing it
InFlight(t) == work[t].reading

\* process_existing_files has returned
ExistingDone ==
    \A k \in DOMAIN MainProgram : MainProgram[k] = "process_existing_files" => main_at > k

\* C20: at most one merge per dedup key is in flight: while the observer
\* runs, process_existing_files has returned and the main thread is in no
\* process_records call; the handler processes at most one file at a time;
\* no two threads are between the read and the write of the entry of one
\* key; and the entry a thread read is still the one stored when it writes
C20_OneMergeInFlight ==
    /\ observer_pc # "off" => (ExistingDone /\ ~ work["main"].active)
    /\ Cardinality(processing) <= 1
    /\ processing # {} => observer_pc \in { "sleeping", "merging", "saving" }
    /\ \A t1, t2 \in Threads :
        (InFlight(t1) /\ InFlight(t2) /\ work[t1].key = work[t2].key) => t1 = t2
    /\ \A t \in Threads :
        InFlight(t) =>
            /\ work[t].found = (work[t].key \in DOMAIN contacts_db)
            /\ work[t].found => contacts_db[work[t].key] = work[t].entry

\* the handler has read, to merge into it, an entry that the main thread
\* wrote, while another event waits in the queue
C20_Witness ==
    /\ InFlight("observer")
    /\ work["observer"].found
    /\ \E name \in FileNames : folds[name] = 1 /\ handled[name] = 0
    /\ event_queue # << >>

\* every parse of the file so far returned no record
YieldedNothing(name) == parses[name] >= 1 /\ folds[name] = 0

-----------------------------------------------------------------------------
(* Claims about process_contacts_file, checked under SpecValidate *)

\* the output file has been opened for writing
OutputOpened == \E k \in 1..Len(io_log) : io_log[k] = "open"

\* the call is over, by a return or by an exception
CallEnded == val_pc \in { "returned", "raised" }

\* the contacts the loop passed, in input order
RECURSIVE PassedFrom(_)
PassedFrom(k) ==
    IF k > Len(verdicts) THEN << >>
    ELSE IF verdicts[k] /\ Strip(ContactEmail(contacts[k])) # << >>
    THEN << contacts[k] >> \o PassedFrom(k + 1)
    ELSE PassedFrom(k + 1)

\* the lines of the contacts the loop passed
PassedRows ==
    LET passed == PassedFrom(1)
    IN  [ k \in 1..Len(passed) |-> WrittenRow(fieldnames, passed[k]) ]

\* C21: in a process_contacts_file call with create_backup true, once the
\* output file is opened for writing the backup has been written before it
\* and holds the header and every line of the original input, and every
\* contact has been validated; and when the call is over after the output
\* was opened, the lines of the output file are exactly the contacts with a
\* non-empty EMAIL that passed validation, in input order.
C21_BackupThenValidatedRows ==
    (val_args.create_backup /\ OutputOpened) =>
        /\ io_log[1] = "backup"
        /\ fs["backup"].exists
        /\ fs["backup"].header = original.header
        /\ fs["backup"].rows = original.rows
        /\ Len(verdicts) = Len(contacts)
        /\ CallEnded => fs[val_args.output].rows = PassedRows

=============================================================================
